---- MODULE Spec2Model ----
(***************************************************************************)
(* Cardputer keyboard reference: the text editor's edit buffer and undo    *)
(* ring (examples/text-editor/text-editor.ino), its poll loop on top of    *)
(* the keyboard library's resolver as README.md documents it.              *)
(*                                                                         *)
(* A String is a sequence of one-character strings.  A C array of Strings  *)
(* (ed.lines, UndoEntry::lines) is the sequence of its entries up to the   *)
(* last non-empty one: every entry past it is the empty String, which is   *)
(* what a zero-initialised global array holds.  Array indexes are 0-based  *)
(* as in the source.                                                       *)
(***************************************************************************)
EXTENDS Integers, Sequences, FiniteSets, TLC

\* ------------------------------------------------------------ configuration
MAX_LINES == 100
MAX_LINE_LEN == 256
VISIBLE_LINES == 13
CHARS_PER_LINE == 38
TAB_WIDTH == 4
UNDO_STACK_SIZE == 20
\* keyboard-diagnostic.ino
LOG_LINES == 16

\* ------------------------------------------------------------ model bounds
\* edit operations of one run (SpecEdit)
MaxOps == 4
\* loop() passes of one run (Spec, SpecFn, SpecCaps)
MaxPolls == 2
MaxCapsPolls == 4
MaxFnKeys == 2
\* keys held down at once
MaxKeys == 3
\* InsertChar operations of a typing burst (SpecRing)
MaxBurst == 22
\* keys held down at once on the resolver's keyboard (SpecResolve)
MaxResolveKeys == 4
\* keys held down at once in the rollover test (SpecRollover)
MaxRollKeys == 13
\* loop() passes of one run of the diagnostic sketch (SpecDiag)
MaxDiagPolls == 3
\* edit operations of one run on the long line (SpecLine)
MaxLineOps == 3

VARIABLES
    ed,          \* EditorState ed (notificationTime left out: see Expire)
    undoStack,   \* UndoEntry undoStack[UNDO_STACK_SIZE]
    undoHead,
    undoCount,
    prevFn,
    prevShift,
    capsLocked,  \* the keyboard library's caps-lock flag (setCapsLocked)
    keyList,     \* the library's list of pressed keys, in press order
    lastKeySize, \* the key count isChange() last saw
    status,      \* the library's KeysState, as update() last resolved it
    logLines,    \* keyboard-diagnostic.ino: String logLines[LOG_LINES]
    logHead,
    logCount,
    canvas,      \* the strings drawn on the canvas since fillScreen
    serial,      \* the lines printed on Serial
    polled,      \* history: what the last loop() pass saw: "idle", "released", "pressed"
    cyc,         \* history: the Fn+Shift combo since the keys were last all up
    acts,        \* history: the operations the last step called, in call order
    budget,      \* history: steps still allowed by MaxOps
    burst,       \* history: ed before each InsertChar of the current burst
    undos        \* history: Undo operations since the burst

vars == <<ed, undoStack, undoHead, undoCount, prevFn, prevShift, capsLocked,
          keyList, lastKeySize, status, logLines, logHead, logCount, canvas, serial,
          polled, cyc, acts, budget, burst, undos>>

\* ------------------------------------------------------------ Strings, arrays
Min(a, b) == IF a < b THEN a ELSE b
Max(a, b) == IF a > b THEN a ELSE b

\* String::substring(left, right): the bounds are swapped when left > right,
\* an out-of-range left gives "", right is clamped to the length
substring(s, left, right) ==
    LET lo == Min(left, right)
        hi == Max(left, right)
    IN  IF lo >= Len(s) THEN <<>> ELSE SubSeq(s, lo + 1, Min(hi, Len(s)))

\* String::substring(left): to the end of the String
substringFrom(s, left) == substring(s, left, Len(s))

\* arr[i]
At(arr, i) == IF i < Len(arr) THEN arr[i + 1] ELSE <<>>

RECURSIVE Trim(_)
Trim(arr) ==
    IF arr # <<>> /\ arr[Len(arr)] = <<>>
    THEN Trim(SubSeq(arr, 1, Len(arr) - 1))
    ELSE arr

\* an array of n Strings, without its trailing empty ones
Array(n, F(_)) == Trim(SubSeq([k \in 1..n |-> F(k)], 1, n))

\* arr[i] = v
Put(arr, i, v) ==
    Array(Max(Len(arr), i + 1), LAMBDA k : IF k = i + 1 THEN v ELSE At(arr, k - 1))

\* for (i = 0; i < n; i++) dst[i] = src[i];
CopyLines(dst, src, n) ==
    Array(Max(Len(dst), n),
          LAMBDA k : IF k <= n THEN At(src, k - 1) ELSE At(dst, k - 1))

\* for (i = from; i < to; i++) arr[i] = arr[i + 1];
ShiftUp(arr, from, to) ==
    Array(Max(Len(arr), to),
          LAMBDA k : IF from <= k - 1 /\ k - 1 < to THEN At(arr, k) ELSE At(arr, k - 1))

\* for (i = from; i > to; i--) arr[i] = arr[i - 1];
ShiftDown(arr, from, to) ==
    Array(Max(Len(arr), from + 1),
          LAMBDA k : IF to < k - 1 /\ k - 1 <= from THEN At(arr, k - 2) ELSE At(arr, k - 1))

\* ------------------------------------------------------------ machine state
\* The operations below take and return a record m of the globals they touch:
\* ed, undoStack, undoHead, undoCount, the keyboard's caps flag, and the
\* history fields acts (operations called) and fresh (a notification was set
\* in this loop() pass, so that its 1500 ms have not run out).
\* F applied to the value of v, which is computed once
Then(v, F(_)) == F(v)

Note(m, text) == [m EXCEPT !.ed.notification = text, !.fresh = TRUE]

Did(m, op, arg) == [m EXCEPT !.acts = Append(@, [op |-> op, arg |-> arg])]

NoEntry == [lines |-> <<>>, lineCount |-> 0, cursorLine |-> 0, cursorCol |-> 0,
            valid |-> FALSE]

\* ------------------------------------------------------------ undo system
\* pushUndo without the "if (undoCount < UNDO_STACK_SIZE)" test
pushUndoLoose(m) ==
    LET u == m.undoStack[m.undoHead]
    IN  [m EXCEPT !.undoStack[m.undoHead] =
                      [lines |-> CopyLines(u.lines, m.ed.lines, m.ed.lineCount),
                       lineCount |-> m.ed.lineCount,
                       cursorLine |-> m.ed.cursorLine,
                       cursorCol |-> m.ed.cursorCol,
                       valid |-> TRUE],
                  !.undoHead = (m.undoHead + 1) % UNDO_STACK_SIZE,
                  !.undoCount = m.undoCount + 1]

\* pushUndo without "u->valid = true"
pushUndoNoValid(m) ==
    LET u == m.undoStack[m.undoHead]
    IN  [m EXCEPT !.undoStack[m.undoHead] =
                      [lines |-> CopyLines(u.lines, m.ed.lines, m.ed.lineCount),
                       lineCount |-> m.ed.lineCount,
                       cursorLine |-> m.ed.cursorLine,
                       cursorCol |-> m.ed.cursorCol,
                       valid |-> u.valid],
                  !.undoHead = (m.undoHead + 1) % UNDO_STACK_SIZE,
                  !.undoCount = IF m.undoCount < UNDO_STACK_SIZE
                                THEN m.undoCount + 1 ELSE m.undoCount]

pushUndo(m) ==
    LET u == m.undoStack[m.undoHead]
    IN  [m EXCEPT !.undoStack[m.undoHead] =
                      [lines |-> CopyLines(u.lines, m.ed.lines, m.ed.lineCount),
                       lineCount |-> m.ed.lineCount,
                       cursorLine |-> m.ed.cursorLine,
                       cursorCol |-> m.ed.cursorCol,
                       valid |-> TRUE],
                  !.undoHead = (m.undoHead + 1) % UNDO_STACK_SIZE,
                  !.undoCount = IF m.undoCount < UNDO_STACK_SIZE
                                THEN m.undoCount + 1 ELSE m.undoCount]

\* popUndo without the "if (undoCount == 0)" return
popUndoNoGuard(m0) ==
    LET m == Did(m0, "popUndo", "")
        h == (m.undoHead - 1 + UNDO_STACK_SIZE) % UNDO_STACK_SIZE
        u == m.undoStack[h]
        p == [m EXCEPT !.undoHead = h, !.undoCount = m.undoCount - 1]
    IN  IF ~u.valid
        THEN p
        ELSE Note([p EXCEPT !.ed.lineCount = u.lineCount,
                            !.ed.cursorLine = u.cursorLine,
                            !.ed.cursorCol = u.cursorCol,
                            !.ed.lines = CopyLines(m.ed.lines, u.lines,
                                                   u.lineCount)],
                  "Undo")

\* popUndo that restores the oldest entry of the history
popUndoOldest(m0) ==
    LET m == Did(m0, "popUndo", "")
    IN  IF m.undoCount = 0
        THEN Note(m, "Nothing to undo")
        ELSE LET h == (m.undoHead - m.undoCount + UNDO_STACK_SIZE) % UNDO_STACK_SIZE
                 u == m.undoStack[h]
                 p == [m EXCEPT !.undoCount = m.undoCount - 1]
             IN  IF ~u.valid
                 THEN p
                 ELSE Note([p EXCEPT !.ed.lineCount = u.lineCount,
                                     !.ed.cursorLine = u.cursorLine,
                                     !.ed.cursorCol = u.cursorCol,
                                     !.ed.lines = CopyLines(m.ed.lines, u.lines,
                                                            u.lineCount)],
                           "Undo")

\* popUndo with the selection dropped by a restore
popUndoClearsSelect(m0) ==
    LET m == Did(m0, "popUndo", "")
    IN  IF m.undoCount = 0
        THEN Note(m, "Nothing to undo")
        ELSE LET h == (m.undoHead - 1 + UNDO_STACK_SIZE) % UNDO_STACK_SIZE
                 u == m.undoStack[h]
                 p == [m EXCEPT !.undoHead = h, !.undoCount = m.undoCount - 1]
             IN  IF ~u.valid
                 THEN p
                 ELSE Note([p EXCEPT !.ed.lineCount = u.lineCount,
                                     !.ed.cursorLine = u.cursorLine,
                                     !.ed.cursorCol = u.cursorCol,
                                     !.ed.selectAll = FALSE,
                                     !.ed.lines = CopyLines(m.ed.lines, u.lines,
                                                            u.lineCount)],
                           "Undo")

popUndo(m0) ==
    LET m == Did(m0, "popUndo", "")
    IN  IF m.undoCount = 0
        THEN Note(m, "Nothing to undo")
        ELSE LET h == (m.undoHead - 1 + UNDO_STACK_SIZE) % UNDO_STACK_SIZE
                 u == m.undoStack[h]
                 p == [m EXCEPT !.undoHead = h, !.undoCount = m.undoCount - 1]
             IN  IF ~u.valid
                 THEN p
                 ELSE Note([p EXCEPT !.ed.lineCount = u.lineCount,
                                     !.ed.cursorLine = u.cursorLine,
                                     !.ed.cursorCol = u.cursorCol,
                                     !.ed.lines = CopyLines(m.ed.lines, u.lines,
                                                            u.lineCount)],
                           "Undo")

\* ------------------------------------------------------------ cursor movement
Line(m, i) == At(m.ed.lines, i)

cursorLeft(m0) ==
    LET m == Did(m0, "cursorLeft", "")
    IN  IF m.ed.cursorCol > 0
        THEN [m EXCEPT !.ed.cursorCol = @ - 1]
        ELSE IF m.ed.cursorLine > 0
        THEN [m EXCEPT !.ed.cursorLine = @ - 1,
                       !.ed.cursorCol = Len(Line(m, m.ed.cursorLine - 1))]
        ELSE m

\* cursorRight that stays on its line
cursorRightNoWrap(m0) ==
    LET m == Did(m0, "cursorRight", "")
    IN  IF m.ed.cursorCol < Len(Line(m, m.ed.cursorLine))
        THEN [m EXCEPT !.ed.cursorCol = @ + 1]
        ELSE m

cursorRight(m0) ==
    LET m == Did(m0, "cursorRight", "")
    IN  IF m.ed.cursorCol < Len(Line(m, m.ed.cursorLine))
        THEN [m EXCEPT !.ed.cursorCol = @ + 1]
        ELSE IF m.ed.cursorLine < m.ed.lineCount - 1
        THEN [m EXCEPT !.ed.cursorLine = @ + 1, !.ed.cursorCol = 0]
        ELSE m

\* cursorUp that keeps the column whatever the length of the line above
cursorUpNoClamp(m0) ==
    LET m == Did(m0, "cursorUp", "")
    IN  IF m.ed.cursorLine > 0
        THEN [m EXCEPT !.ed.cursorLine = @ - 1]
        ELSE m

cursorUp(m0) ==
    LET m == Did(m0, "cursorUp", "")
    IN  IF m.ed.cursorLine > 0
        THEN LET n == Len(Line(m, m.ed.cursorLine - 1))
             IN  [m EXCEPT !.ed.cursorLine = @ - 1,
                           !.ed.cursorCol = IF @ > n THEN n ELSE @]
        ELSE m

cursorDown(m0) ==
    LET m == Did(m0, "cursorDown", "")
    IN  IF m.ed.cursorLine < m.ed.lineCount - 1
        THEN LET n == Len(Line(m, m.ed.cursorLine + 1))
             IN  [m EXCEPT !.ed.cursorLine = @ + 1,
                           !.ed.cursorCol = IF @ > n THEN n ELSE @]
        ELSE m

ensureCursorVisible(m) ==
    LET y1 == IF m.ed.cursorLine < m.ed.scrollY THEN m.ed.cursorLine ELSE m.ed.scrollY
        y2 == IF m.ed.cursorLine >= y1 + VISIBLE_LINES
              THEN m.ed.cursorLine - VISIBLE_LINES + 1 ELSE y1
        leftMargin == IF m.ed.showLineNumbers THEN 4 ELSE 0
        visibleChars == CHARS_PER_LINE - leftMargin
        x1 == IF m.ed.cursorCol < m.ed.scrollX THEN m.ed.cursorCol ELSE m.ed.scrollX
        x2 == IF m.ed.cursorCol >= x1 + visibleChars
              THEN m.ed.cursorCol - visibleChars + 1 ELSE x1
    IN  [m EXCEPT !.ed.scrollY = y2, !.ed.scrollX = x2]

\* ------------------------------------------------------------ text editing
\* insertChar that calls pushUndo after it has changed the line
insertCharLate(m0, c) ==
    LET m == Did(m0, "insertChar", c)
        line == Line(m, m.ed.cursorLine)
        new == IF m.ed.cursorCol >= Len(line)
               THEN Append(line, c)
               ELSE substring(line, 0, m.ed.cursorCol) \o <<c>>
                    \o substringFrom(line, m.ed.cursorCol)
    IN  pushUndo([m EXCEPT !.ed.lines = Put(@, m.ed.cursorLine, new),
                           !.ed.cursorCol = @ + 1])

insertChar(m0, c) ==
    Then(pushUndo(Did(m0, "insertChar", c)), LAMBDA m :
        LET line == Line(m, m.ed.cursorLine)
            new == IF m.ed.cursorCol >= Len(line)
                   THEN Append(line, c)
                   ELSE substring(line, 0, m.ed.cursorCol) \o <<c>>
                        \o substringFrom(line, m.ed.cursorCol)
        IN  [m EXCEPT !.ed.lines = Put(@, m.ed.cursorLine, new),
                      !.ed.cursorCol = @ + 1])

\* handleBackspace that reads the join column after it has joined the lines
handleBackspaceLateCol(m0) ==
    LET m == Did(m0, "handleBackspace", "")
        L == m.ed.cursorLine
        c == m.ed.cursorCol
    IN  IF c > 0
        THEN Then(pushUndo(m), LAMBDA p :
                 LET line == Line(p, L)
                 IN  [p EXCEPT !.ed.lines = Put(@, L, substring(line, 0, c - 1)
                                                      \o substringFrom(line, c)),
                               !.ed.cursorCol = c - 1])
        ELSE IF L > 0
        THEN Then(pushUndo(m), LAMBDA p :
             Then(Put(p.ed.lines, L - 1, Line(p, L - 1) \o Line(p, L)), LAMBDA joined :
                 LET moved == ShiftUp(joined, L, p.ed.lineCount - 1)
                 IN  [p EXCEPT !.ed.cursorCol = Len(At(joined, L - 1)),
                               !.ed.lines = Put(moved, p.ed.lineCount - 1, <<>>),
                               !.ed.lineCount = @ - 1,
                               !.ed.cursorLine = L - 1]))
        ELSE m

handleBackspace(m0) ==
    LET m == Did(m0, "handleBackspace", "")
        L == m.ed.cursorLine
        c == m.ed.cursorCol
    IN  IF c > 0
        THEN Then(pushUndo(m), LAMBDA p :
                 LET line == Line(p, L)
                 IN  [p EXCEPT !.ed.lines = Put(@, L, substring(line, 0, c - 1)
                                                      \o substringFrom(line, c)),
                               !.ed.cursorCol = c - 1])
        ELSE IF L > 0
        THEN Then(pushUndo(m), LAMBDA p :
             Then(Put(p.ed.lines, L - 1, Line(p, L - 1) \o Line(p, L)), LAMBDA joined :
                 LET moved == ShiftUp(joined, L, p.ed.lineCount - 1)
                 IN  [p EXCEPT !.ed.cursorCol = Len(Line(p, L - 1)),
                               !.ed.lines = Put(moved, p.ed.lineCount - 1, <<>>),
                               !.ed.lineCount = @ - 1,
                               !.ed.cursorLine = L - 1]))
        ELSE m

\* handleForwardDelete that calls pushUndo before it tests the cursor
handleForwardDeleteEager(m0) ==
    Then(pushUndo(Did(m0, "handleForwardDelete", "")), LAMBDA p :
        LET L == p.ed.cursorLine
            c == p.ed.cursorCol
            line == Line(p, L)
        IN  IF c < Len(line)
            THEN [p EXCEPT !.ed.lines = Put(@, L, substring(line, 0, c)
                                                 \o substringFrom(line, c + 1))]
            ELSE IF L < p.ed.lineCount - 1
            THEN LET joined == Put(p.ed.lines, L, Line(p, L) \o Line(p, L + 1))
                     moved == ShiftUp(joined, L + 1, p.ed.lineCount - 1)
                 IN  [p EXCEPT !.ed.lines = Put(moved, p.ed.lineCount - 1, <<>>),
                               !.ed.lineCount = @ - 1]
            ELSE p)

\* handleForwardDelete whose shift loop starts at cursorLine + 2
handleForwardDeleteLateShift(m0) ==
    LET m == Did(m0, "handleForwardDelete", "")
        L == m.ed.cursorLine
        c == m.ed.cursorCol
    IN  IF c < Len(Line(m, L))
        THEN Then(pushUndo(m), LAMBDA p :
                 LET line == Line(p, L)
                 IN  [p EXCEPT !.ed.lines = Put(@, L, substring(line, 0, c)
                                                      \o substringFrom(line, c + 1))])
        ELSE IF L < m.ed.lineCount - 1
        THEN Then(pushUndo(m), LAMBDA p :
                 LET joined == Put(p.ed.lines, L, Line(p, L) \o Line(p, L + 1))
                     moved == ShiftUp(joined, L + 2, p.ed.lineCount - 1)
                 IN  [p EXCEPT !.ed.lines = Put(moved, p.ed.lineCount - 1, <<>>),
                               !.ed.lineCount = @ - 1])
        ELSE m

handleForwardDelete(m0) ==
    LET m == Did(m0, "handleForwardDelete", "")
        L == m.ed.cursorLine
        c == m.ed.cursorCol
    IN  IF c < Len(Line(m, L))
        THEN Then(pushUndo(m), LAMBDA p :
                 LET line == Line(p, L)
                 IN  [p EXCEPT !.ed.lines = Put(@, L, substring(line, 0, c)
                                                      \o substringFrom(line, c + 1))])
        ELSE IF L < m.ed.lineCount - 1
        THEN Then(pushUndo(m), LAMBDA p :
                 LET joined == Put(p.ed.lines, L, Line(p, L) \o Line(p, L + 1))
                     moved == ShiftUp(joined, L + 1, p.ed.lineCount - 1)
                 IN  [p EXCEPT !.ed.lines = Put(moved, p.ed.lineCount - 1, <<>>),
                               !.ed.lineCount = @ - 1])
        ELSE m

\* handleEnter that takes the remainder after it has cut the line
handleEnterLateRemainder(m0) ==
    LET m == Did(m0, "handleEnter", "")
    IN  IF m.ed.lineCount >= MAX_LINES
        THEN m
        ELSE Then(pushUndo(m), LAMBDA p :
                 LET L == p.ed.cursorLine
                     line == Line(p, L)
                     cut == Put(p.ed.lines, L, substring(line, 0, p.ed.cursorCol))
                     remainder == substringFrom(At(cut, L), p.ed.cursorCol)
                     moved == ShiftDown(cut, p.ed.lineCount, L + 1)
                 IN  [p EXCEPT !.ed.cursorLine = L + 1,
                               !.ed.lines = Put(moved, L + 1, remainder),
                               !.ed.lineCount = @ + 1,
                               !.ed.cursorCol = 0])

\* handleEnter without the "if (lineCount >= MAX_LINES) return"
handleEnterNoCap(m0) ==
    Then(pushUndo(Did(m0, "handleEnter", "")), LAMBDA p :
        LET L == p.ed.cursorLine
            line == Line(p, L)
            remainder == substringFrom(line, p.ed.cursorCol)
            cut == Put(p.ed.lines, L, substring(line, 0, p.ed.cursorCol))
            moved == ShiftDown(cut, p.ed.lineCount, L + 1)
        IN  [p EXCEPT !.ed.cursorLine = L + 1,
                      !.ed.lines = Put(moved, L + 1, remainder),
                      !.ed.lineCount = @ + 1,
                      !.ed.cursorCol = 0])

handleEnter(m0) ==
    LET m == Did(m0, "handleEnter", "")
    IN  IF m.ed.lineCount >= MAX_LINES
        THEN m
        ELSE Then(pushUndo(m), LAMBDA p :
                 LET L == p.ed.cursorLine
                     line == Line(p, L)
                     remainder == substringFrom(line, p.ed.cursorCol)
                     cut == Put(p.ed.lines, L, substring(line, 0, p.ed.cursorCol))
                     moved == ShiftDown(cut, p.ed.lineCount, L + 1)
                 IN  [p EXCEPT !.ed.cursorLine = L + 1,
                               !.ed.lines = Put(moved, L + 1, remainder),
                               !.ed.lineCount = @ + 1,
                               !.ed.cursorCol = 0])

RECURSIVE insertSpaces(_, _)
insertSpaces(m, n) ==
    IF n = 0 THEN m
    ELSE Then(insertChar(m, " "), LAMBDA x : insertSpaces(x, n - 1))

\* handleTab that calls pushUndo once, before the first space
handleTabOneSnapshot(m0) ==
    Then(pushUndo(Did(m0, "handleTab", "")), LAMBDA p :
        LET line == Line(p, p.ed.cursorLine)
            new == substring(line, 0, p.ed.cursorCol)
                   \o [k \in 1..TAB_WIDTH |-> " "]
                   \o substringFrom(line, p.ed.cursorCol)
        IN  [p EXCEPT !.ed.lines = Put(@, p.ed.cursorLine, new),
                      !.ed.cursorCol = @ + TAB_WIDTH])

handleTab(m0) == insertSpaces(Did(m0, "handleTab", ""), TAB_WIDTH)

handleEscape(m0) ==
    LET m == Did(m0, "handleEscape", "")
    IN  IF m.ed.selectAll
        THEN Note([m EXCEPT !.ed.selectAll = FALSE], "Selection cleared")
        ELSE IF m.ed.notification # ""
        THEN Note(m, "")
        ELSE Note(m, "ESC")

\* "F" + String(num)
FKeyName(num) ==
    CASE num = 1 -> "F1" [] num = 2 -> "F2" [] num = 3 -> "F3" [] num = 4 -> "F4"
      [] num = 5 -> "F5" [] num = 6 -> "F6" [] num = 7 -> "F7" [] num = 8 -> "F8"
      [] num = 9 -> "F9" [] num = 10 -> "F10"

handleFKey(m, num) == Note(Did(m, "handleFKey", FKeyName(num)), FKeyName(num))

handleSave(m) == Note(Did(m, "handleSave", ""), "Saved! (Ctrl+S)")

handleSelectAll(m) ==
    Note([Did(m, "handleSelectAll", "") EXCEPT !.ed.selectAll = TRUE],
         "Select All (Ctrl+A)")

handleCopy(m) == Note(Did(m, "handleCopy", ""), "Copy (Ctrl+C)")

handlePaste(m) == Note(Did(m, "handlePaste", ""), "Paste (Ctrl+V)")

\* ------------------------------------------------------------ printable input
\* the body of "for (auto c : s.word)" without the pushUndo of the
\* "if (ed.selectAll)" block
typeCharNoSnapshot(m, c) ==
    IF m.ed.selectAll
    THEN insertChar([Did(m, "replaceAll", "") EXCEPT !.ed.lineCount = 1,
                                                     !.ed.lines = Put(@, 0, <<>>),
                                                     !.ed.cursorLine = 0,
                                                     !.ed.cursorCol = 0,
                                                     !.ed.selectAll = FALSE], c)
    ELSE insertChar(m, c)

\* loop(), the body of "for (auto c : s.word)" under "Printable text input"
typeChar(m, c) ==
    IF m.ed.selectAll
    THEN Then(pushUndo(Did(m, "replaceAll", "")), LAMBDA p :
             insertChar([p EXCEPT !.ed.lineCount = 1,
                                  !.ed.lines = Put(@, 0, <<>>),
                                  !.ed.cursorLine = 0,
                                  !.ed.cursorCol = 0,
                                  !.ed.selectAll = FALSE], c))
    ELSE insertChar(m, c)

\* ------------------------------------------------------------ setup()
\* the notification reads "Ready" followed by a dash and "type away!"
SetupEd ==
    [lines |-> <<>>, lineCount |-> 1, cursorLine |-> 0, cursorCol |-> 0,
     scrollY |-> 0, scrollX |-> 0, capsLock |-> FALSE, selectAll |-> FALSE,
     showLineNumbers |-> FALSE, notification |-> "Ready - type away!"]

SetupMach ==
    [ed |-> SetupEd,
     undoStack |-> [i \in 0..(UNDO_STACK_SIZE - 1) |-> NoEntry],
     undoHead |-> 0, undoCount |-> 0, capsLocked |-> FALSE,
     acts |-> <<>>, fresh |-> FALSE]

\* the diagnostic sketch's globals before its setup()
DiagOff ==
    /\ logLines = [i \in 0..(LOG_LINES - 1) |-> <<>>]
    /\ logHead = 0
    /\ logCount = 0
    /\ canvas = <<>>
    /\ serial = <<>>

DiagFrame == UNCHANGED <<logLines, logHead, logCount, canvas, serial>>

\* the globals as the record the operations work on, at the start of a step
Mach ==
    [ed |-> ed, undoStack |-> undoStack, undoHead |-> undoHead,
     undoCount |-> undoCount, capsLocked |-> capsLocked,
     acts |-> <<>>, fresh |-> FALSE]

\* the globals after a step that ended in m
Commit(m) ==
    /\ budget > 0
    /\ budget' = budget - 1
    /\ ed' = m.ed
    /\ undoStack' = m.undoStack
    /\ undoHead' = m.undoHead
    /\ undoCount' = m.undoCount
    /\ capsLocked' = m.capsLocked
    /\ acts' = m.acts
    /\ DiagFrame

\* lines[0..lineCount), lineCount and the cursor: what a snapshot holds
Visible(lines, n) == [k \in 1..n |-> At(lines, k - 1)]

View(e) ==
    [lines |-> Visible(e.lines, e.lineCount), lineCount |-> e.lineCount,
     cursorLine |-> e.cursorLine, cursorCol |-> e.cursorCol]

\* ------------------------------------------------------------ starting states
\* The runs start from the globals as setup() leaves them, or as they are
\* after a text has been typed into that editor, one key at a time: "\n" is
\* the Enter key (handleEnter), "UP" is Fn+';' (cursorUp), any other a printable key
\* (typeChar), each followed by ensureCursorVisible as in loop().
\* one key of the text
TypedKey(m, c) ==
    LET k == [m EXCEPT !.acts = <<>>, !.fresh = FALSE]
    IN  ensureCursorVisible(IF c = "\n" THEN handleEnter(k)
                            ELSE IF c = "UP" THEN cursorUp(k)
                            ELSE typeChar(k, c))

\* the keys of the text in order: the first half, then the second half
RECURSIVE Typed(_, _)
Typed(m, text) ==
    IF text = <<>>
    THEN m
    ELSE IF Len(text) = 1
    THEN TypedKey(m, text[1])
    ELSE LET half == Len(text) \div 2
             h == Typed(m, SubSeq(text, 1, half))
         IN  IF h.ed.lineCount > 0
             THEN Typed(h, SubSeq(text, half + 1, Len(text)))
             ELSE m

Enters(n) == [k \in 1..n |-> "\n"]

Texts ==
    { <<>>,
      <<"a", "b">>,
      <<"a", "b", "\n", "b", "\n", "a">>,
      Enters(MAX_LINES - 2) \o <<"a">> }

StartMach == { Typed(SetupMach, t) : t \in Texts }

NoCycle == [open |-> FALSE, both |-> FALSE, pure |-> FALSE, fires |-> 0,
            seen |-> {}, held |-> FALSE, n |-> 0]

\* KeysState with no key down
NoKeys ==
    [tab |-> FALSE, fn |-> FALSE, shift |-> FALSE, ctrl |-> FALSE, opt |-> FALSE,
     alt |-> FALSE, del |-> FALSE, enter |-> FALSE, space |-> FALSE,
     modifiers |-> 0, word |-> <<>>, hid_keys |-> <<>>, modifier_keys |-> <<>>]

KeyboardIdle ==
    /\ prevFn = FALSE
    /\ prevShift = FALSE
    /\ keyList = <<>>
    /\ lastKeySize = 0
    /\ status = NoKeys
    /\ polled = "idle"
    /\ cyc = NoCycle

InitOf(m) ==
    /\ ed = m.ed
    /\ undoStack = m.undoStack
    /\ undoHead = m.undoHead
    /\ undoCount = m.undoCount
    /\ capsLocked = m.capsLocked
    /\ acts = <<>>
    /\ burst = <<>>
    /\ undos = 0
    /\ KeyboardIdle
    /\ DiagOff

\* ------------------------------------------------------------ edit operations
\* SpecEdit: the edit buffer's operations (spec 4.4), each applied on its own
\* to the globals, in any order, MaxOps of them in a run.
Chars == {"a", "b"}

InitEdit == \E m \in StartMach : InitOf(m) /\ budget = MaxOps

EditFrame ==
    UNCHANGED <<prevFn, prevShift, keyList, lastKeySize, status, polled, cyc, burst,
                undos>>

InsertChar == \E c \in Chars : Commit(typeChar(Mach, c)) /\ EditFrame
Backspace == Commit(handleBackspace(Mach)) /\ EditFrame
ForwardDelete == Commit(handleForwardDelete(Mach)) /\ EditFrame
Enter == Commit(handleEnter(Mach)) /\ EditFrame
Tab == Commit(handleTab(Mach)) /\ EditFrame
MoveLeft == Commit(cursorLeft(Mach)) /\ EditFrame
MoveRight == Commit(cursorRight(Mach)) /\ EditFrame
MoveUp == Commit(cursorUp(Mach)) /\ EditFrame
MoveDown == Commit(cursorDown(Mach)) /\ EditFrame
SelectAll == Commit(handleSelectAll(Mach)) /\ EditFrame
Escape == Commit(handleEscape(Mach)) /\ EditFrame
Undo == Commit(popUndo(Mach)) /\ EditFrame

NextEdit ==
    \/ InsertChar \/ Backspace \/ ForwardDelete \/ Enter \/ Tab
    \/ MoveLeft \/ MoveRight \/ MoveUp \/ MoveDown
    \/ SelectAll \/ Escape \/ Undo

SpecEdit == InitEdit /\ [][NextEdit]_vars

\* ------------------------------------------------------------ the long line
\* SpecLine: the edit operations on a buffer whose one line holds
\* MAX_LINE_LEN characters, typed one at a time, MaxLineOps of them in a run.
LongLine == [k \in 1..MAX_LINE_LEN |-> "a"]

InitLine == InitOf(Typed(SetupMach, LongLine)) /\ budget = MaxLineOps

SpecLine == InitLine /\ [][NextEdit]_vars

\* ------------------------------------------------------------ typing burst
\* SpecRing: the printable key "z" and Undo on the editor setup() leaves, up
\* to MaxBurst insertions: the undo ring fills, wraps and drains.
InitRing == InitOf(SetupMach) /\ budget = 0

RingFrame ==
    UNCHANGED <<prevFn, prevShift, keyList, lastKeySize, status, polled, cyc, budget>>

RingCommit(m) ==
    /\ ed' = m.ed
    /\ undoStack' = m.undoStack
    /\ undoHead' = m.undoHead
    /\ undoCount' = m.undoCount
    /\ capsLocked' = m.capsLocked
    /\ acts' = m.acts
    /\ DiagFrame

RingInsert ==
    /\ Len(Line(Mach, 0)) < MaxBurst
    /\ RingCommit(typeChar(Mach, "z"))
    /\ burst' = IF undos = 0 THEN Append(burst, View(ed)) ELSE <<View(ed)>>
    /\ undos' = 0
    /\ RingFrame

RingUndo ==
    /\ undos <= UNDO_STACK_SIZE
    /\ RingCommit(popUndo(Mach))
    /\ undos' = undos + 1
    /\ UNCHANGED burst
    /\ RingFrame

NextRing == RingInsert \/ RingUndo

SpecRing == InitRing /\ [][NextRing]_vars

\* ------------------------------------------------------------ keyboard library
\* The M5Cardputer keyboard as README.md describes it.  A key is named by
\* its base-layer character, or FN, SHF, CTL, OPT, ALT, TAB, ENT, BKSP; the
\* backquote, which no TLA+ string can hold, is written BQ.
\* _key_value_map[4][14]: value_second of every printable key
KeyValueMap ==
    ("BQ" :> "~") @@ ("1" :> "!") @@ ("2" :> "@") @@ ("3" :> "#") @@ ("4" :> "$")
    @@ ("5" :> "%") @@ ("6" :> "^") @@ ("7" :> "&") @@ ("8" :> "*") @@ ("9" :> "(")
    @@ ("0" :> ")") @@ ("-" :> "_") @@ ("=" :> "+")
    @@ ("q" :> "Q") @@ ("w" :> "W") @@ ("e" :> "E") @@ ("r" :> "R") @@ ("t" :> "T")
    @@ ("y" :> "Y") @@ ("u" :> "U") @@ ("i" :> "I") @@ ("o" :> "O") @@ ("p" :> "P")
    @@ ("[" :> "{") @@ ("]" :> "}") @@ ("\\" :> "|")
    @@ ("a" :> "A") @@ ("s" :> "S") @@ ("d" :> "D") @@ ("f" :> "F") @@ ("g" :> "G")
    @@ ("h" :> "H") @@ ("j" :> "J") @@ ("k" :> "K") @@ ("l" :> "L") @@ (";" :> ":")
    @@ ("'" :> "\"")
    @@ ("z" :> "Z") @@ ("x" :> "X") @@ ("c" :> "C") @@ ("v" :> "V") @@ ("b" :> "B")
    @@ ("n" :> "N") @@ ("m" :> "M") @@ ("," :> "<") @@ ("." :> ">") @@ ("/" :> "?")
    @@ (" " :> " ")

Printable == DOMAIN KeyValueMap

Letters ==
    {"q", "w", "e", "r", "t", "y", "u", "i", "o", "p", "a", "s", "d", "f", "g",
     "h", "j", "k", "l", "z", "x", "c", "v", "b", "n", "m"}

\* tolower(c)
tolower(c) ==
    IF \E k \in Letters : KeyValueMap[k] = c
    THEN CHOOSE k \in Letters : KeyValueMap[k] = c
    ELSE c

\* c - '0' for c in '1'..'9'
DigitValue ==
    ("1" :> 1) @@ ("2" :> 2) @@ ("3" :> 3) @@ ("4" :> 4) @@ ("5" :> 5)
    @@ ("6" :> 6) @@ ("7" :> 7) @@ ("8" :> 8) @@ ("9" :> 9)

Pressed(kl) == {kl[i] : i \in 1..Len(kl)}

\* _kb_asciimap: the HID usage ID of every key that has one (README 11)
HidCode ==
    ("a" :> 4) @@ ("b" :> 5) @@ ("c" :> 6) @@ ("d" :> 7) @@ ("e" :> 8)
    @@ ("f" :> 9) @@ ("g" :> 10) @@ ("h" :> 11) @@ ("i" :> 12) @@ ("j" :> 13)
    @@ ("k" :> 14) @@ ("l" :> 15) @@ ("m" :> 16) @@ ("n" :> 17) @@ ("o" :> 18)
    @@ ("p" :> 19) @@ ("q" :> 20) @@ ("r" :> 21) @@ ("s" :> 22) @@ ("t" :> 23)
    @@ ("u" :> 24) @@ ("v" :> 25) @@ ("w" :> 26) @@ ("x" :> 27) @@ ("y" :> 28)
    @@ ("z" :> 29)
    @@ ("1" :> 30) @@ ("2" :> 31) @@ ("3" :> 32) @@ ("4" :> 33) @@ ("5" :> 34)
    @@ ("6" :> 35) @@ ("7" :> 36) @@ ("8" :> 37) @@ ("9" :> 38) @@ ("0" :> 39)
    @@ ("ENT" :> 40) @@ ("BKSP" :> 42) @@ ("TAB" :> 43) @@ (" " :> 44)
    @@ ("-" :> 45) @@ ("=" :> 46) @@ ("[" :> 47) @@ ("]" :> 48) @@ ("\\" :> 49)
    @@ (";" :> 51) @@ ("'" :> 52) @@ ("BQ" :> 53) @@ ("," :> 54) @@ ("." :> 55)
    @@ ("/" :> 56)

\* KEY_LEFT_CTRL 0x80, KEY_LEFT_SHIFT 0x81, KEY_LEFT_ALT 0x82
ModifierCode == ("CTL" :> 128) @@ ("SHF" :> 129) @@ ("ALT" :> 130)

\* 1 << n
Shl(n) == IF n = 0 THEN 1 ELSE IF n = 1 THEN 2 ELSE 4

\* mask | bit, for a one-bit value
BitOr(mask, bit) == IF (mask \div bit) % 2 = 1 THEN mask ELSE mask + bit

\* modifiers |= (1 << (KEY_CODE - 0x80)), for every code of the sequence
RECURSIVE Bitmask(_)
Bitmask(codes) ==
    IF codes = <<>> THEN 0
    ELSE BitOr(Bitmask(Tail(codes)), Shl(Head(codes) - 128))

\* keysState with the HID code of the shifted layer (base code + 0x80) for
\* a key whose value_second went to word
keysStateShiftedHid(kl, caps) ==
    LET down == Pressed(kl)
        layer == "CTL" \in down \/ "SHF" \in down \/ caps
        keys == SelectSeq(kl, LAMBDA k : k \in Printable)
        hids == SelectSeq(kl, LAMBDA k : k \in DOMAIN HidCode)
        mods == SelectSeq(kl, LAMBDA k : k \in DOMAIN ModifierCode)
        codes == [i \in 1..Len(mods) |-> ModifierCode[mods[i]]]
    IN  [tab |-> "TAB" \in down, fn |-> "FN" \in down, shift |-> "SHF" \in down,
         ctrl |-> "CTL" \in down, opt |-> "OPT" \in down, alt |-> "ALT" \in down,
         del |-> "BKSP" \in down, enter |-> "ENT" \in down,
         space |-> " " \in down,
         modifiers |-> Bitmask(codes),
         word |-> [i \in 1..Len(keys) |->
                     IF layer THEN KeyValueMap[keys[i]] ELSE keys[i]],
         hid_keys |-> [i \in 1..Len(hids) |->
                         IF layer /\ hids[i] \in Printable
                         THEN HidCode[hids[i]] + 128 ELSE HidCode[hids[i]]],
         modifier_keys |-> codes]

\* keysState with Opt handled as a modifier key: KEY_OPT (0x00) joins
\* modifier_keys
keysStateOptCode(kl, caps) ==
    LET down == Pressed(kl)
        layer == "CTL" \in down \/ "SHF" \in down \/ caps
        keys == SelectSeq(kl, LAMBDA k : k \in Printable)
        hids == SelectSeq(kl, LAMBDA k : k \in DOMAIN HidCode)
        mods == SelectSeq(kl, LAMBDA k : k \in DOMAIN ModifierCode)
        opts == SelectSeq(kl, LAMBDA k : k \in DOMAIN ModifierCode \cup {"OPT"})
    IN  [tab |-> "TAB" \in down, fn |-> "FN" \in down, shift |-> "SHF" \in down,
         ctrl |-> "CTL" \in down, opt |-> "OPT" \in down, alt |-> "ALT" \in down,
         del |-> "BKSP" \in down, enter |-> "ENT" \in down,
         space |-> " " \in down,
         modifiers |-> Bitmask([i \in 1..Len(mods) |-> ModifierCode[mods[i]]]),
         word |-> [i \in 1..Len(keys) |->
                     IF layer THEN KeyValueMap[keys[i]] ELSE keys[i]],
         hid_keys |-> [i \in 1..Len(hids) |-> HidCode[hids[i]]],
         modifier_keys |-> [i \in 1..Len(opts) |->
                              IF opts[i] = "OPT" THEN 0 ELSE ModifierCode[opts[i]]]]

\* keysState that walks the key list once: a printable key gets value_second
\* only if Ctrl or Shift comes before it in the list, or caps lock is on
keysStateInOrder(kl, caps) ==
    LET down == Pressed(kl)
        at == SelectSeq([i \in 1..Len(kl) |-> i], LAMBDA i : kl[i] \in Printable)
        hids == SelectSeq(kl, LAMBDA k : k \in DOMAIN HidCode)
        mods == SelectSeq(kl, LAMBDA k : k \in DOMAIN ModifierCode)
        codes == [i \in 1..Len(mods) |-> ModifierCode[mods[i]]]
    IN  [tab |-> "TAB" \in down, fn |-> "FN" \in down, shift |-> "SHF" \in down,
         ctrl |-> "CTL" \in down, opt |-> "OPT" \in down, alt |-> "ALT" \in down,
         del |-> "BKSP" \in down, enter |-> "ENT" \in down,
         space |-> " " \in down,
         modifiers |-> Bitmask(codes),
         word |-> [n \in 1..Len(at) |->
                     IF caps \/ \E j \in 1..(at[n] - 1) : kl[j] \in {"CTL", "SHF"}
                     THEN KeyValueMap[kl[at[n]]] ELSE kl[at[n]]],
         hid_keys |-> [i \in 1..Len(hids) |-> HidCode[hids[i]]],
         modifier_keys |-> codes]

\* keysState that keeps the first six entries of word and of hid_keys
keysStateSixKeys(kl, caps) ==
    LET down == Pressed(kl)
        layer == "CTL" \in down \/ "SHF" \in down \/ caps
        keys == SelectSeq(kl, LAMBDA k : k \in Printable)
        hids == SelectSeq(kl, LAMBDA k : k \in DOMAIN HidCode)
        mods == SelectSeq(kl, LAMBDA k : k \in DOMAIN ModifierCode)
        codes == [i \in 1..Len(mods) |-> ModifierCode[mods[i]]]
    IN  [tab |-> "TAB" \in down, fn |-> "FN" \in down, shift |-> "SHF" \in down,
         ctrl |-> "CTL" \in down, opt |-> "OPT" \in down, alt |-> "ALT" \in down,
         del |-> "BKSP" \in down, enter |-> "ENT" \in down,
         space |-> " " \in down,
         modifiers |-> Bitmask(codes),
         word |-> [i \in 1..Min(Len(keys), 6) |->
                     IF layer THEN KeyValueMap[keys[i]] ELSE keys[i]],
         hid_keys |-> [i \in 1..Min(Len(hids), 6) |-> HidCode[hids[i]]],
         modifier_keys |-> codes]

\* keysState(): the KeysState of the pressed keys.  Ctrl, Shift and Alt set
\* their flag, their bit of modifiers and their code in modifier_keys; Fn and
\* Opt their flag only; Tab, Enter and Backspace their flag and their HID
\* code; a printable key gives its HID code and, to word, value_second when
\* ctrl, shift or caps lock is on, else value_first
keysState(kl, caps) ==
    LET down == Pressed(kl)
        layer == "CTL" \in down \/ "SHF" \in down \/ caps
        keys == SelectSeq(kl, LAMBDA k : k \in Printable)
        hids == SelectSeq(kl, LAMBDA k : k \in DOMAIN HidCode)
        mods == SelectSeq(kl, LAMBDA k : k \in DOMAIN ModifierCode)
        codes == [i \in 1..Len(mods) |-> ModifierCode[mods[i]]]
    IN  [tab |-> "TAB" \in down, fn |-> "FN" \in down, shift |-> "SHF" \in down,
         ctrl |-> "CTL" \in down, opt |-> "OPT" \in down, alt |-> "ALT" \in down,
         del |-> "BKSP" \in down, enter |-> "ENT" \in down,
         space |-> " " \in down,
         modifiers |-> Bitmask(codes),
         word |-> [i \in 1..Len(keys) |->
                     IF layer THEN KeyValueMap[keys[i]] ELSE keys[i]],
         hid_keys |-> [i \in 1..Len(hids) |-> HidCode[hids[i]]],
         modifier_keys |-> codes]

\* the key list after one key event: a pressed key released, or another key
\* of the universe K pressed (it joins the end of the list) while fewer than
\* max keys are down
OneEvent(kl, K, max) ==
    {SelectSeq(kl, LAMBDA x : x # k) : k \in Pressed(kl)}
    \cup {Append(kl, k) : k \in IF Len(kl) < max THEN K \ Pressed(kl) ELSE {}}

\* M5Cardputer.update(): the key list after the key events, two at most,
\* that arrived since the last pass
Scans(kl, K, max) ==
    {kl} \cup OneEvent(kl, K, max)
    \cup UNION {OneEvent(x, K, max) : x \in OneEvent(kl, K, max)}

\* ------------------------------------------------------------ loop()
\* the switch of the Fn layer, for one character of s.word
fnChar(m, c) ==
    CASE c = ";" -> cursorUp(m)
      [] c = "," -> cursorLeft(m)
      [] c = "." -> cursorDown(m)
      [] c = "/" -> cursorRight(m)
      [] c = "BQ" -> handleEscape(m)
      [] OTHER -> IF c \in DOMAIN DigitValue
                  THEN handleFKey(m, DigitValue[c])
                  ELSE IF c = "0" THEN handleFKey(m, 10) ELSE m

\* the switch of the Ctrl shortcuts on c itself, without tolower
ctrlCharExact(m, c) ==
    CASE c = "s" -> handleSave(m)
      [] c = "z" -> popUndo(m)
      [] c = "a" -> handleSelectAll(m)
      [] c = "c" -> handleCopy(m)
      [] c = "v" -> handlePaste(m)
      [] OTHER -> m

\* the switch of the Ctrl shortcuts, for one character of s.word
ctrlChar(m, c) ==
    CASE tolower(c) = "s" -> handleSave(m)
      [] tolower(c) = "z" -> popUndo(m)
      [] tolower(c) = "a" -> handleSelectAll(m)
      [] tolower(c) = "c" -> handleCopy(m)
      [] tolower(c) = "v" -> handlePaste(m)
      [] OTHER -> m

RECURSIVE fnWord(_, _)
fnWord(m, word) ==
    IF word = <<>> THEN m
    ELSE Then(fnChar(m, Head(word)), LAMBDA x : fnWord(x, Tail(word)))

RECURSIVE ctrlWord(_, _)
ctrlWord(m, word) ==
    IF word = <<>> THEN m
    ELSE Then(ctrlChar(m, Head(word)), LAMBDA x : ctrlWord(x, Tail(word)))

RECURSIVE typeWord(_, _)
typeWord(m, word) ==
    IF word = <<>> THEN m
    ELSE Then(typeChar(m, Head(word)), LAMBDA x : typeWord(x, Tail(word)))

\* the caps lock toggle without the test of prevFn and prevShift
capsToggleLevel(m, s, pf, ps) ==
    IF s.fn /\ s.shift
    THEN LET on == ~m.ed.capsLock
         IN  Note([Did(m, "capsToggle", "") EXCEPT !.ed.capsLock = on,
                                                   !.capsLocked = on],
                  IF on THEN "CAPS ON" ELSE "CAPS OFF")
    ELSE m

\* the caps lock toggle without the call of setCapsLocked
capsToggleMirror(m, s, pf, ps) ==
    IF s.fn /\ s.shift /\ ~(pf /\ ps)
    THEN LET on == ~m.ed.capsLock
         IN  Note([Did(m, "capsToggle", "") EXCEPT !.ed.capsLock = on],
                  IF on THEN "CAPS ON" ELSE "CAPS OFF")
    ELSE m

\* "Caps Lock toggle (Fn+Shift)"
capsToggle(m, s, pf, ps) ==
    IF s.fn /\ s.shift /\ ~(pf /\ ps)
    THEN LET on == ~m.ed.capsLock
         IN  Note([Did(m, "capsToggle", "") EXCEPT !.ed.capsLock = on,
                                                   !.capsLocked = on],
                  IF on THEN "CAPS ON" ELSE "CAPS OFF")
    ELSE m

\* the Fn layer with Backspace left as Backspace
fnLayerBackspace(m, s) ==
    LET del(w) == IF s.del THEN handleBackspace(w) ELSE w
    IN  Then(Then(fnWord(m, s.word), del), ensureCursorVisible)

\* "Fn layer: arrows, ESC, forward delete, F-keys", up to "goto done"
fnLayer(m, s) ==
    LET del(w) == IF s.del THEN handleForwardDelete(w) ELSE w
    IN  Then(Then(fnWord(m, s.word), del), ensureCursorVisible)

\* the normal input path with only the key pressed last typed
normalInputLastKey(m, s) ==
    LET alt(x) == IF s.alt THEN Note(x, "ALT held") ELSE x
        opt(x) ==
            IF s.opt
            THEN LET on == ~x.ed.showLineNumbers
                 IN  Note([Did(x, "optToggle", "") EXCEPT !.ed.showLineNumbers = on],
                          IF on THEN "Line numbers ON" ELSE "Line numbers OFF")
            ELSE x
        del(x) == IF s.del THEN handleBackspace(x) ELSE x
        enter(x) == IF s.enter THEN handleEnter(x) ELSE x
        tab(x) == IF s.tab THEN handleTab(x) ELSE x
        word(x) == IF s.word = <<>> THEN x ELSE typeChar(x, s.word[Len(s.word)])
    IN  Then(Then(Then(Then(Then(Then(alt(m), opt), del), enter), tab), word),
             ensureCursorVisible)

\* "Alt", "Opt", "Special keys", "Printable text input"
normalInput(m, s) ==
    LET alt(x) == IF s.alt THEN Note(x, "ALT held") ELSE x
        opt(x) ==
            IF s.opt
            THEN LET on == ~x.ed.showLineNumbers
                 IN  Note([Did(x, "optToggle", "") EXCEPT !.ed.showLineNumbers = on],
                          IF on THEN "Line numbers ON" ELSE "Line numbers OFF")
            ELSE x
        del(x) == IF s.del THEN handleBackspace(x) ELSE x
        enter(x) == IF s.enter THEN handleEnter(x) ELSE x
        tab(x) == IF s.tab THEN handleTab(x) ELSE x
        word(x) == typeWord(x, s.word)
    IN  Then(Then(Then(Then(Then(Then(alt(m), opt), del), enter), tab), word),
             ensureCursorVisible)

\* the body of "if (M5Cardputer.Keyboard.isPressed())" with the Ctrl
\* shortcuts tested before the Fn layer
keysPressedCtrlFirst(m, s, pf, ps) ==
    LET input(t) == IF s.ctrl THEN ctrlWord(t, s.word)
                    ELSE IF s.fn THEN fnLayer(t, s)
                    ELSE normalInput(t, s)
    IN  Then(capsToggle(m, s, pf, ps), input)

\* the body of "if (M5Cardputer.Keyboard.isPressed())"
keysPressed(m, s, pf, ps) ==
    LET input(t) == IF s.fn THEN fnLayer(t, s)
                    ELSE IF s.ctrl THEN ctrlWord(t, s.word)
                    ELSE normalInput(t, s)
    IN  Then(capsToggle(m, s, pf, ps), input)

\* prevFn, prevShift without the reset of the "All keys released" branch
prevFlagNoReset(prev, changed, kl, cur) ==
    IF changed /\ kl # <<>> THEN cur ELSE prev

\* prevFn, prevShift after a pass: the flag of a processed pass with keys
\* down, FALSE after a processed pass with none, unchanged otherwise
prevFlag(prev, changed, kl, cur) ==
    IF ~changed THEN prev ELSE IF kl = <<>> THEN FALSE ELSE cur

\* "Notification expiry": whether NOTIFICATION_MS have passed since
\* notificationTime is the clock's choice, and they have not when this pass
\* set the notification
expire(m) ==
    IF m.fresh \/ m.ed.notification = ""
    THEN {m}
    ELSE {m, [m EXCEPT !.ed.notification = ""]}

\* history of the Fn+Shift combo, kept per pass from the key list it sees:
\* open while keys are down, both once Fn and Shift were down together,
\* pure while only Fn and Shift were pressed and each one once, fires the
\* toggles (2 for more), held while both stay down since a toggle, n the
\* pure cycles with both that are over (2 for more)
cycle(kl, toggled) ==
    LET down == Pressed(kl)
        both == "FN" \in down /\ "SHF" \in down
        fresh == keyList = <<>>
        c == IF fresh THEN [NoCycle EXCEPT !.n = cyc.n] ELSE cyc
        fired == IF toggled THEN 1 ELSE 0
    IN  IF kl = <<>>
        THEN IF fresh
             THEN cyc
             ELSE [cyc EXCEPT !.open = FALSE, !.held = FALSE,
                              !.n = IF cyc.both /\ cyc.pure /\ @ < 2 THEN @ + 1 ELSE @]
        ELSE [open |-> TRUE,
              both |-> c.both \/ both,
              pure |-> (fresh \/ c.pure) /\ down \subseteq {"FN", "SHF"}
                       /\ (down \ Pressed(keyList)) \cap c.seen = {},
              fires |-> IF c.fires + fired > 2 THEN 2 ELSE c.fires + fired,
              seen |-> c.seen \cup down,
              held |-> both /\ (toggled \/ c.held),
              n |-> c.n]

\* one pass of loop() that finds the key list kl
Pass(kl) ==
    LET changed == Len(kl) # lastKeySize
        s == keysState(kl, capsLocked)
    IN  \E m \in {IF changed /\ kl # <<>>
                  THEN keysPressed(Mach, s, prevFn, prevShift)
                  ELSE Mach} :
            /\ keyList' = kl
            /\ lastKeySize' = Len(kl)
            /\ status' = s
            /\ polled' = IF ~changed THEN "idle"
                         ELSE IF kl = <<>> THEN "released" ELSE "pressed"
            /\ prevFn' = prevFlag(prevFn, changed, kl, s.fn)
            /\ prevShift' = prevFlag(prevShift, changed, kl, s.shift)
            /\ \E x \in expire(m) : Commit(x)
            /\ cyc' = cycle(kl, \E i \in 1..Len(m.acts) : m.acts[i].op = "capsToggle")
            /\ UNCHANGED <<burst, undos>>

\* the passes by the branch of loop() they take, on a keyboard of the keys K
\* of which max can be down
PassIdle(K, max) ==
    \E kl \in Scans(keyList, K, max) : Len(kl) = lastKeySize /\ Pass(kl)

PassReleased(K, max) ==
    \E kl \in Scans(keyList, K, max) :
        Len(kl) # lastKeySize /\ kl = <<>> /\ Pass(kl)

PassFn(K, max) ==
    \E kl \in Scans(keyList, K, max) :
        Len(kl) # lastKeySize /\ "FN" \in Pressed(kl) /\ Pass(kl)

PassCtrl(K, max) ==
    \E kl \in Scans(keyList, K, max) :
        /\ Len(kl) # lastKeySize /\ "FN" \notin Pressed(kl) /\ "CTL" \in Pressed(kl)
        /\ Pass(kl)

PassNormal(K, max) ==
    \E kl \in Scans(keyList, K, max) :
        /\ Len(kl) # lastKeySize /\ kl # <<>>
        /\ "FN" \notin Pressed(kl) /\ "CTL" \notin Pressed(kl)
        /\ Pass(kl)

PollTexts ==
    { <<>>,
      <<"a", "b", "\n", "b", "\n", "a">>,
      <<"a", "b", "\n", "b", "\n", "a", "UP", "UP">> }

\* ------------------------------------------------------------ the editor
\* Spec: loop() on a keyboard whose keys reach every branch of it.
Keys == {"FN", "CTL", "OPT", "BKSP", "ENT", "TAB", ",", "BQ", "1", "z"}

Init == \E t \in PollTexts : InitOf(Typed(SetupMach, t)) /\ budget = MaxPolls

Idle == PassIdle(Keys, MaxKeys)
Released == PassReleased(Keys, MaxKeys)
FnLayer == PassFn(Keys, MaxKeys)
CtrlShortcuts == PassCtrl(Keys, MaxKeys)
NormalInput == PassNormal(Keys, MaxKeys)

Next == Idle \/ Released \/ FnLayer \/ CtrlShortcuts \/ NormalInput

Spec == Init /\ [][Next]_vars

\* ------------------------------------------------------------ the Fn layer
\* SpecFn: Fn with the keys of the Fn layer, caps lock on or off.  Caps lock
\* is on after one Fn+Shift press (SpecCaps), which sets ed.capsLock and the
\* library's flag together.
FnKeys == {"FN", ";", ",", ".", "/", "BQ", "1", "5", "9", "0"}

InitFn ==
    \E t \in PollTexts, caps \in BOOLEAN :
        /\ InitOf([Typed(SetupMach, t) EXCEPT !.ed.capsLock = caps,
                                              !.capsLocked = caps])
        /\ budget = MaxPolls

FnIdle == PassIdle(FnKeys, MaxFnKeys)
FnReleased == PassReleased(FnKeys, MaxFnKeys)
FnPressed == PassFn(FnKeys, MaxFnKeys)
FnTyped == PassNormal(FnKeys, MaxFnKeys)

NextFn == FnIdle \/ FnReleased \/ FnPressed \/ FnTyped

SpecFn == InitFn /\ [][NextFn]_vars

\* ------------------------------------------------------------ caps lock
\* SpecCaps: Fn, Shift and a letter, over enough passes for two press and
\* release cycles of Fn+Shift.
CapsKeys == {"FN", "SHF", "a"}

InitCaps == InitOf(SetupMach) /\ budget = MaxCapsPolls

CapsIdle == PassIdle(CapsKeys, MaxKeys)
CapsReleased == PassReleased(CapsKeys, MaxKeys)
CapsFn == PassFn(CapsKeys, MaxKeys)
CapsTyped == PassNormal(CapsKeys, MaxKeys)

NextCaps == CapsIdle \/ CapsReleased \/ CapsFn \/ CapsTyped

SpecCaps == InitCaps /\ [][NextCaps]_vars

\* ------------------------------------------------------------ Ctrl shortcuts
\* SpecCtrl: Ctrl with the five shortcut letters, another letter, and the
\* keys of the normal input that Ctrl suppresses.
CtrlKeys == {"CTL", "s", "z", "a", "c", "v", "x", "BKSP", "ENT", "TAB", "OPT"}

\* the third text: Enter VISIBLE_LINES + 1 times, which scrolls the window,
\* then Fn+';' as many times, which brings cursor and window back to line 0
CtrlTexts ==
    { <<>>,
      <<"a", "b", "\n", "b", "\n", "a">>,
      Enters(VISIBLE_LINES + 1) \o [k \in 1..(VISIBLE_LINES + 1) |-> "UP"] }

InitCtrl == \E t \in CtrlTexts : InitOf(Typed(SetupMach, t)) /\ budget = MaxPolls

CtrlIdle == PassIdle(CtrlKeys, MaxKeys)
CtrlReleased == PassReleased(CtrlKeys, MaxKeys)
CtrlPressed == PassCtrl(CtrlKeys, MaxKeys)
CtrlTyped == PassNormal(CtrlKeys, MaxKeys)

NextCtrl == CtrlIdle \/ CtrlReleased \/ CtrlPressed \/ CtrlTyped

SpecCtrl == InitCtrl /\ [][NextCtrl]_vars

\* ------------------------------------------------------------ the resolver
\* SpecResolve: the library on its own.  A key goes down or up and update()
\* resolves the key list under the caps-lock flag of the moment;
\* setCapsLocked sets the flag and resolves nothing.
ResolveKeys == {"CTL", "SHF", "ALT", "FN", "OPT", "TAB", "BKSP", "a", ";"}

InitResolve ==
    \E caps \in BOOLEAN :
        InitOf([SetupMach EXCEPT !.capsLocked = caps]) /\ budget = 0

ResolveFrame ==
    /\ UNCHANGED <<ed, undoStack, undoHead, undoCount, prevFn, prevShift,
                   lastKeySize, polled, cyc, budget, burst, undos>>
    /\ DiagFrame

Update ==
    \E kl \in OneEvent(keyList, ResolveKeys, MaxResolveKeys) :
        /\ keyList' = kl
        /\ status' = keysState(kl, capsLocked)
        /\ acts' = <<[op |-> "update", arg |-> ""]>>
        /\ UNCHANGED capsLocked
        /\ ResolveFrame

SetCapsLocked ==
    \E on \in BOOLEAN :
        /\ capsLocked' = on
        /\ acts' = <<[op |-> "setCapsLocked", arg |-> ""]>>
        /\ UNCHANGED <<keyList, status>>
        /\ ResolveFrame

NextResolve == Update \/ SetCapsLocked

SpecResolve == InitResolve /\ [][NextResolve]_vars

\* ------------------------------------------------------------ rollover
\* SpecRollover: the library under the rollover test of the diagnostic
\* sketch: the keys of the top letter row, Space, Tab, Enter and Backspace
\* go down from left to right, up to MaxRollKeys of them, and up in any
\* order; caps lock is on or off.
RollKeys == <<"q", "w", "e", "r", "t", "y", "u", "i", "o", "p", " ",
              "TAB", "ENT", "BKSP">>

\* the position of key k in RollKeys
RollIndex(k) == CHOOSE i \in 1..Len(RollKeys) : RollKeys[i] = k

\* the keys right of every key that is down
RightOf(kl) ==
    {RollKeys[i] : i \in {j \in 1..Len(RollKeys) :
                            \A k \in Pressed(kl) : RollIndex(k) < j}}

InitRollover ==
    \E caps \in BOOLEAN :
        InitOf([SetupMach EXCEPT !.capsLocked = caps]) /\ budget = 0

RollUpdate ==
    \E kl \in OneEvent(keyList, RightOf(keyList), MaxRollKeys) :
        /\ keyList' = kl
        /\ status' = keysState(kl, capsLocked)
        /\ acts' = <<[op |-> "update", arg |-> ""]>>
        /\ UNCHANGED capsLocked
        /\ ResolveFrame

NextRollover == RollUpdate

SpecRollover == InitRollover /\ [][NextRollover]_vars

\* ------------------------------------------------------------ diagnostic
\* keyboard-diagnostic.ino.  The Strings of the sketch are sequences of the
\* pieces they are concatenated from; the empty String is <<>>.
Hex == <<"0", "1", "2", "3", "4", "5", "6", "7", "8", "9",
         "A", "B", "C", "D", "E", "F">>

\* snprintf(buf, sizeof(buf), "0x%02X", v)
hexByte(v) == <<"0x", Hex[((v \div 16) % 16) + 1], Hex[(v % 16) + 1]>>

\* String(n) of a size
RECURSIVE Decimal(_)
Decimal(n) ==
    IF n < 10 THEN <<Hex[n + 1]>>
    ELSE Decimal(n \div 10) \o <<Hex[(n % 10) + 1]>>

\* the characters of word are values of the key map, all of them in 32..126
printableChar(c) == <<"'", c, "'">>

\* the Strings of a sequence, concatenated
RECURSIVE Concat(_)
Concat(seq) == IF seq = <<>> THEN <<>> ELSE Head(seq) \o Concat(Tail(seq))

\* "for (auto c : seq) str += Piece(c) + " ";"
Joined(seq, Piece(_)) == Concat([i \in 1..Len(seq) |-> Piece(seq[i]) \o <<" ">>])

\* the globals of the sketch as a record
Diag ==
    [logLines |-> logLines, logHead |-> logHead, logCount |-> logCount,
     canvas |-> canvas, serial |-> serial, capsLocked |-> capsLocked]

logPrint(d, line) ==
    [d EXCEPT !.serial = Append(@, line),
              !.logLines[d.logHead] = line,
              !.logHead = (d.logHead + 1) % LOG_LINES,
              !.logCount = IF d.logCount < LOG_LINES THEN d.logCount + 1
                           ELSE d.logCount]

\* the "for (int i = 0; i < logCount && y < 130; i++)" loop of drawLog
RECURSIVE drawLines(_, _, _, _)
drawLines(d, startIdx, i, y) ==
    IF i < d.logCount /\ y < 130
    THEN LET idx == (startIdx + i) % LOG_LINES
         IN  <<[text |-> d.logLines[idx], x |-> 0, y |-> y]>>
             \o drawLines(d, startIdx, i + 1, y + 8)
    ELSE <<>>

Header == <<"KB DIAG | Fn+Shift=CapsToggle">>

drawLog(d) ==
    LET startIdx == IF d.logCount < LOG_LINES THEN 0 ELSE d.logHead
    IN  [d EXCEPT !.canvas = <<[text |-> Header, x |-> 0, y |-> 0]>>
                             \o drawLines(d, startIdx, 0, 10)]

dumpKeysState(d, s) ==
    LET on(b, name) == IF b THEN <<name>> ELSE <<>>
        set == on(s.tab, "TAB ") \o on(s.fn, "FN ") \o on(s.shift, "SHF ")
               \o on(s.ctrl, "CTL ") \o on(s.opt, "OPT ") \o on(s.alt, "ALT ")
               \o on(s.del, "DEL ") \o on(s.enter, "ENT ") \o on(s.space, "SPC ")
        flags == <<"F:">> \o (IF set = <<>> THEN <<"(none)">> ELSE set)
                 \o <<" mod=">> \o hexByte(s.modifiers)
        wordStr == <<"W[">> \o Decimal(Len(s.word)) \o <<"]:">>
                   \o Joined(s.word, printableChar)
                   \o (IF s.word = <<>> THEN <<"(empty)">> ELSE <<>>)
        hidStr == <<"H[">> \o Decimal(Len(s.hid_keys)) \o <<"]:">>
                  \o Joined(s.hid_keys, hexByte)
                  \o (IF s.hid_keys = <<>> THEN <<"(empty)">> ELSE <<>>)
        modStr == <<"M[">> \o Decimal(Len(s.modifier_keys)) \o <<"]:">>
                  \o Joined(s.modifier_keys, hexByte)
        mods(x) == IF s.modifier_keys # <<>> THEN logPrint(x, modStr) ELSE x
        caps(x) == IF x.capsLocked THEN logPrint(x, <<"CAPS: ON">>) ELSE x
        end(x) == logPrint(x, <<"---">>)
    IN  Then(Then(Then(logPrint(logPrint(logPrint(d, flags), wordStr), hidStr),
                       mods), caps), end)

\* setup() of the sketch
diagSetup(d) ==
    drawLog(logPrint(logPrint(logPrint(logPrint(logPrint(d,
        <<"Cardputer ADV KB Diag">>),
        <<"Press any key/combo...">>),
        <<"Fn+Shift = toggle caps">>),
        <<"Serial @ 115200">>),
        <<"---">>))

\* the matrix position of key k; the repository gives no coordinates, the
\* x and y of a key are written after its name
Position(k) == <<"(", k, ".x", ",", k, ".y", ")">>

\* the body of "if (M5Cardputer.Keyboard.isPressed())" of the sketch's loop()
diagPressed(d, s, kl, pf, ps) ==
    LET toggle(x) ==
            IF s.fn /\ s.shift /\ ~(pf /\ ps)
            THEN LET on == ~x.capsLocked
                 IN  logPrint([x EXCEPT !.capsLocked = on],
                              IF on THEN <<">>> CAPS LOCK ON">>
                              ELSE <<">>> CAPS LOCK OFF">>)
            ELSE x
        posStr == <<"P[">> \o Decimal(Len(kl)) \o <<"]:">> \o Joined(kl, Position)
        pos(x) == logPrint(x, posStr)
        dump(x) == dumpKeysState(x, s)
    IN  Then(Then(Then(toggle(d), pos), dump), drawLog)

\* one pass of the sketch's loop() that finds the key list kl
DiagPass(kl) ==
    LET changed == Len(kl) # lastKeySize
        s == keysState(kl, capsLocked)
    IN  \E d \in {IF changed /\ kl # <<>>
                  THEN diagPressed(Diag, s, kl, prevFn, prevShift)
                  ELSE Diag} :
            /\ budget > 0
            /\ budget' = budget - 1
            /\ keyList' = kl
            /\ lastKeySize' = Len(kl)
            /\ status' = s
            /\ polled' = IF ~changed THEN "idle"
                         ELSE IF kl = <<>> THEN "released" ELSE "pressed"
            /\ prevFn' = prevFlag(prevFn, changed, kl, s.fn)
            /\ prevShift' = prevFlag(prevShift, changed, kl, s.shift)
            /\ logLines' = d.logLines
            /\ logHead' = d.logHead
            /\ logCount' = d.logCount
            /\ canvas' = d.canvas
            /\ serial' = d.serial
            /\ capsLocked' = d.capsLocked
            /\ acts' = IF changed /\ kl # <<>>
                       THEN <<[op |-> "drawLog", arg |-> ""]>> ELSE <<>>
            /\ UNCHANGED <<ed, undoStack, undoHead, undoCount, cyc, burst, undos>>

\* SpecDiag: the diagnostic sketch from its setup() on, on a keyboard of
\* Fn, Shift and two letters, MaxDiagPolls passes of loop() in a run.
DiagKeys == {"FN", "SHF", "a", "b"}

InitDiag ==
    \E d \in {diagSetup([logLines |-> [i \in 0..(LOG_LINES - 1) |-> <<>>],
                         logHead |-> 0, logCount |-> 0, canvas |-> <<>>,
                         serial |-> <<>>, capsLocked |-> FALSE])} :
        /\ ed = SetupEd
        /\ undoStack = SetupMach.undoStack
        /\ undoHead = 0
        /\ undoCount = 0
        /\ capsLocked = d.capsLocked
        /\ acts = <<>>
        /\ burst = <<>>
        /\ undos = 0
        /\ KeyboardIdle
        /\ logLines = d.logLines
        /\ logHead = d.logHead
        /\ logCount = d.logCount
        /\ canvas = d.canvas
        /\ serial = d.serial
        /\ budget = MaxDiagPolls

DiagIdle ==
    \E kl \in Scans(keyList, DiagKeys, MaxKeys) : Len(kl) = lastKeySize /\ DiagPass(kl)

DiagReleased ==
    \E kl \in Scans(keyList, DiagKeys, MaxKeys) :
        Len(kl) # lastKeySize /\ kl = <<>> /\ DiagPass(kl)

DiagPressed ==
    \E kl \in Scans(keyList, DiagKeys, MaxKeys) :
        Len(kl) # lastKeySize /\ kl # <<>> /\ DiagPass(kl)

NextDiag == DiagIdle \/ DiagReleased \/ DiagPressed

SpecDiag == InitDiag /\ [][NextDiag]_vars

\* ============================================================ claims
Only(op) == Len(acts) = 1 /\ acts[1].op = op

CountIn(a, op) == Cardinality({i \in 1..Len(a) : a[i].op = op})

\* the entry the next popUndo reads
Top == undoStack[(undoHead - 1 + UNDO_STACK_SIZE) % UNDO_STACK_SIZE]

Snapshot(u) ==
    [lines |-> Visible(u.lines, u.lineCount), lineCount |-> u.lineCount,
     cursorLine |-> u.cursorLine, cursorCol |-> u.cursorCol]

\* C1: after n > UNDO_STACK_SIZE consecutive InsertChar operations the k-th
\* following Undo (k <= UNDO_STACK_SIZE) restores lines, lineCount and cursor
\* to what they were before insertion n-k+1; the Undo after those changes
\* nothing and reports "Nothing to undo".
C1_UndoAfterOverflow ==
    (Len(burst) > UNDO_STACK_SIZE /\ undos >= 1) =>
        IF undos <= UNDO_STACK_SIZE
        THEN /\ View(ed) = burst[Len(burst) - undos + 1]
             /\ ed.notification = "Undo"
             /\ undoCount = UNDO_STACK_SIZE - undos
        ELSE /\ View(ed) = burst[Len(burst) - UNDO_STACK_SIZE + 1]
             /\ ed.notification = "Nothing to undo"
             /\ undoCount = 0

\* 21 insertions, 21 Undos: the buffer is the one the 1st insertion left
C1_Witness ==
    /\ Len(burst) = UNDO_STACK_SIZE + 1
    /\ undos = UNDO_STACK_SIZE + 1
    /\ View(ed) = [lines |-> << <<"z">> >>, lineCount |-> 1,
                   cursorLine |-> 0, cursorCol |-> 1]

\* C2: Undo with an empty history (undoCount = 0) leaves lines, lineCount,
\* the cursor, undoHead and undoCount as they are and sets the notification
\* to "Nothing to undo".
C2_UndoOnEmpty ==
    [][(undoCount = 0 /\ Only("popUndo")') =>
          /\ ed'.lines = ed.lines
          /\ ed'.lineCount = ed.lineCount
          /\ ed'.cursorLine = ed.cursorLine
          /\ ed'.cursorCol = ed.cursorCol
          /\ undoHead' = undoHead
          /\ undoCount' = undoCount
          /\ ed'.notification = "Nothing to undo"]_vars

\* an Undo found the history empty after earlier Undos had drained it
C2_Witness ==
    /\ Only("popUndo")
    /\ ed.notification = "Nothing to undo"
    /\ undoCount = 0
    /\ undoStack[0].valid

\* C3: in every reachable state 1 <= lineCount <= MAX_LINES,
\* 0 <= cursorLine < lineCount and 0 <= cursorCol <= length(lines[cursorLine]).
C3_CursorInBuffer ==
    /\ 1 <= ed.lineCount /\ ed.lineCount <= MAX_LINES
    /\ 0 <= ed.cursorLine /\ ed.cursorLine < ed.lineCount
    /\ 0 <= ed.cursorCol /\ ed.cursorCol <= Len(At(ed.lines, ed.cursorLine))

\* Enter was called on a buffer of MAX_LINES lines
C3_Witness ==
    /\ Only("handleEnter")
    /\ ed.lineCount = MAX_LINES
    /\ Snapshot(Top).lineCount = MAX_LINES - 1
    /\ budget = MaxOps - 2

Mutates(op) ==
    CASE op = "insertChar" -> TRUE
      [] op = "handleBackspace" -> ~(ed.cursorLine = 0 /\ ed.cursorCol = 0)
      [] op = "handleForwardDelete" ->
            ~(ed.cursorLine = ed.lineCount - 1
              /\ ed.cursorCol = Len(At(ed.lines, ed.cursorLine)))
      [] op = "handleEnter" -> ed.lineCount < MAX_LINES

\* C4: InsertChar, Backspace not at (0,0), ForwardDelete not at the end of the
\* last line and Enter below MAX_LINES push a snapshot of lines[0..lineCount),
\* lineCount and the cursor as they were before the operation, so that one
\* Undo right after the operation restores exactly those values.
C4_UndoRestores ==
    [][\A op \in {"insertChar", "handleBackspace", "handleForwardDelete", "handleEnter"} :
          (Only(op)' /\ Mutates(op)) =>
              /\ undoHead' = (undoHead + 1) % UNDO_STACK_SIZE
              /\ Snapshot(undoStack'[undoHead]) = View(ed)
              /\ View(popUndo(Mach').ed) = View(ed)
              /\ View(ed') # View(ed)]_vars

\* a Backspace joined two lines while the ring was full (the push wrapped)
C4_Witness ==
    /\ Only("handleBackspace")
    /\ undoCount = UNDO_STACK_SIZE
    /\ ed.lineCount = MAX_LINES - 2

\* C10: Backspace at column 0 of line L > 0 makes line L-1 the old line L-1
\* followed by the old line L, moves every later line up by one, decreases
\* lineCount by 1 and puts the cursor at (L-1, length of the old line L-1).
C10_BackspaceJoin ==
    [][(Only("handleBackspace")' /\ ed.cursorCol = 0 /\ ed.cursorLine > 0) =>
          LET L == ed.cursorLine
          IN  /\ ed'.lineCount = ed.lineCount - 1
              /\ ed'.cursorLine = L - 1
              /\ ed'.cursorCol = Len(At(ed.lines, L - 1))
              /\ At(ed'.lines, L - 1) = At(ed.lines, L - 1) \o At(ed.lines, L)
              /\ \A i \in 0..(L - 2) : At(ed'.lines, i) = At(ed.lines, i)
              /\ \A i \in L..(ed.lineCount - 2) :
                    At(ed'.lines, i) = At(ed.lines, i + 1)]_vars

\* a Backspace joined two non-empty lines and moved a later line up
C10_Witness ==
    /\ Only("handleBackspace")
    /\ Top.cursorCol = 0 /\ Top.cursorLine > 0
    /\ Top.lineCount = ed.lineCount + 1
    /\ ed.cursorCol > 0
    /\ Len(At(ed.lines, ed.cursorLine)) > ed.cursorCol
    /\ ed.cursorLine < ed.lineCount - 1
    /\ At(ed.lines, ed.cursorLine + 1) # <<>>

\* lines, lineCount, the cursor and the undo history are as before the step
Untouched ==
    /\ ed'.lines = ed.lines
    /\ ed'.lineCount = ed.lineCount
    /\ ed'.cursorLine = ed.cursorLine
    /\ ed'.cursorCol = ed.cursorCol
    /\ undoStack' = undoStack
    /\ undoHead' = undoHead
    /\ undoCount' = undoCount

AtEndOfText(e) ==
    /\ e.cursorLine = e.lineCount - 1
    /\ e.cursorCol = Len(At(e.lines, e.cursorLine))

\* C11: Backspace at (line 0, column 0), ForwardDelete at the end of the last
\* line and Enter with lineCount = MAX_LINES change nothing: lines, lineCount,
\* the cursor, undoHead, undoCount and the stored snapshots stay as they are.
C11_BoundaryNoOps ==
    [][/\ (Only("handleBackspace")' /\ ed.cursorLine = 0 /\ ed.cursorCol = 0)
            => Untouched
       /\ (Only("handleForwardDelete")' /\ AtEndOfText(ed)) => Untouched
       /\ (Only("handleEnter")' /\ ed.lineCount = MAX_LINES) => Untouched]_vars

\* ForwardDelete was the first operation on the typed three-line text, whose
\* cursor is at the end of the last line: the six snapshots are still there
C11_Witness ==
    /\ Only("handleForwardDelete")
    /\ budget = MaxOps - 1
    /\ AtEndOfText(ed)
    /\ ed.lineCount = 3
    /\ undoCount = 6
    /\ undoHead = 6

\* C12: Enter with lineCount < MAX_LINES and the cursor at (L, c) leaves the
\* first c characters of the old line L in line L and the rest in line L+1,
\* moves every later line down by one in order, increases lineCount by 1 and
\* puts the cursor at (L+1, 0).
C12_EnterSplit ==
    [][(Only("handleEnter")' /\ ed.lineCount < MAX_LINES) =>
          LET L == ed.cursorLine
              c == ed.cursorCol
              old == At(ed.lines, L)
          IN  /\ ed'.lineCount = ed.lineCount + 1
              /\ ed'.cursorLine = L + 1
              /\ ed'.cursorCol = 0
              /\ At(ed'.lines, L) = SubSeq(old, 1, c)
              /\ At(ed'.lines, L + 1) = SubSeq(old, c + 1, Len(old))
              /\ \A i \in 0..(L - 1) : At(ed'.lines, i) = At(ed.lines, i)
              /\ \A i \in (L + 1)..(ed.lineCount - 1) :
                    At(ed'.lines, i + 1) = At(ed.lines, i)]_vars

\* Enter between the "a" and the "b" of the first of three lines
C12_Witness ==
    /\ Only("handleEnter")
    /\ ed.lineCount = 4
    /\ ed.cursorLine = 1 /\ ed.cursorCol = 0
    /\ Visible(ed.lines, 4) = << <<"a">>, <<"b">>, <<"b">>, <<"a">> >>
    /\ Snapshot(Top).lines = << <<"a", "b">>, <<"b">>, <<"a">> >>

\* s without the character at index c
Without(s, c) == SubSeq(s, 1, c) \o SubSeq(s, c + 2, Len(s))

\* C13: ForwardDelete with the cursor at (L, c) removes the character at
\* index c when c < length(line L); otherwise, when L is not the last line,
\* it appends line L+1 to line L, moves the later lines up by one in order
\* and decreases lineCount by 1; the cursor stays where it is in both cases.
C13_ForwardDelete ==
    [][Only("handleForwardDelete")' =>
          LET L == ed.cursorLine
              c == ed.cursorCol
              old == At(ed.lines, L)
          IN  /\ ed'.cursorLine = L
              /\ ed'.cursorCol = c
              /\ \A i \in 0..(L - 1) : At(ed'.lines, i) = At(ed.lines, i)
              /\ IF c < Len(old)
                 THEN /\ At(ed'.lines, L) = Without(old, c)
                      /\ ed'.lineCount = ed.lineCount
                      /\ \A i \in (L + 1)..(ed.lineCount - 1) :
                            At(ed'.lines, i) = At(ed.lines, i)
                 ELSE IF L < ed.lineCount - 1
                 THEN /\ At(ed'.lines, L) = old \o At(ed.lines, L + 1)
                      /\ ed'.lineCount = ed.lineCount - 1
                      /\ \A i \in (L + 1)..(ed.lineCount - 2) :
                            At(ed'.lines, i) = At(ed.lines, i + 1)
                 ELSE TRUE]_vars

\* ForwardDelete at the end of the first of three lines joined the second
\* line to it and moved the third line up
C13_Witness ==
    /\ Only("handleForwardDelete")
    /\ ed.lineCount = 2
    /\ ed.cursorLine = 0 /\ ed.cursorCol = 2
    /\ Visible(ed.lines, 2) = << <<"a", "b", "b">>, <<"a">> >>
    /\ Snapshot(Top).lines = << <<"a", "b">>, <<"b">>, <<"a">> >>

\* the step called handleTab
IsTab(a) == a # <<>> /\ a[1].op = "handleTab"

Spaces(n) == [k \in 1..n |-> " "]

\* what a snapshot of e would hold had n spaces been typed at its cursor
WithSpaces(e, n) ==
    LET old == At(e.lines, e.cursorLine)
        new == SubSeq(old, 1, e.cursorCol) \o Spaces(n)
               \o SubSeq(old, e.cursorCol + 1, Len(old))
    IN  [lines |-> [k \in 1..e.lineCount |->
                      IF k = e.cursorLine + 1 THEN new ELSE At(e.lines, k - 1)],
         lineCount |-> e.lineCount,
         cursorLine |-> e.cursorLine,
         cursorCol |-> e.cursorCol + n]

\* m after n Undo operations
RECURSIVE Undone(_, _)
Undone(m, n) == IF n = 0 THEN m ELSE Undone(popUndo(m), n - 1)

\* m after n insertChar(' ') calls
RECURSIVE Spaced(_, _)
Spaced(m, n) == IF n = 0 THEN m ELSE Spaced(insertChar(m, " "), n - 1)

\* C14: Tab has the effect of TAB_WIDTH successive insertChar(' ') calls: it
\* inserts 4 spaces at the cursor, adds 4 to cursorCol and pushes 4
\* snapshots, so that the k-th Undo after it leaves 4-k of the spaces and
\* only the 4th restores the buffer as it was before the Tab.
C14_TabIsFourInserts ==
    [][IsTab(acts') =>
          /\ View(ed') = WithSpaces(ed, TAB_WIDTH)
          /\ undoHead' = (undoHead + TAB_WIDTH) % UNDO_STACK_SIZE
          /\ undoCount' = Min(undoCount + TAB_WIDTH, UNDO_STACK_SIZE)
          /\ \A k \in 1..TAB_WIDTH :
                /\ View(Undone(Mach', k).ed) = WithSpaces(ed, TAB_WIDTH - k)
                /\ k < TAB_WIDTH => View(Undone(Mach', k).ed) # View(ed)
          /\ LET r == Spaced(Mach, TAB_WIDTH)
             IN  /\ r.ed = ed'
                 /\ r.undoStack = undoStack'
                 /\ r.undoHead = undoHead'
                 /\ r.undoCount = undoCount'
          /\ CountIn(acts', "insertChar") = TAB_WIDTH]_vars

\* Tab between the "a" and the "b" of the first of three lines
C14_Witness ==
    /\ IsTab(acts)
    /\ ed.lineCount = 3
    /\ ed.cursorLine = 0 /\ ed.cursorCol = 5
    /\ At(ed.lines, 0) = <<"a", " ", " ", " ", " ", "b">>
    /\ undoCount = 10

\* the step typed the printable character c
TypedChar(a, c) ==
    /\ a # <<>>
    /\ ~IsTab(a)
    /\ a[Len(a)] = [op |-> "insertChar", arg |-> c]

Cleared == [lines |-> << <<>> >>, lineCount |-> 1, cursorLine |-> 0, cursorCol |-> 0]

\* C15: a printable character c typed while selectAll is set snapshots the
\* buffer, clears it to one empty line, clears the flag and inserts c with a
\* snapshot of its own: lineCount = 1, lines[0] = c, cursor (0,1), selectAll
\* false; the first Undo then gives the empty one-line buffer with cursor
\* (0,0), the second the lines and cursor from before the replacement.
C15_ReplaceAll ==
    [][\A c \in Chars :
          (ed.selectAll /\ TypedChar(acts', c)) =>
              /\ View(ed') = [lines |-> << <<c>> >>, lineCount |-> 1,
                              cursorLine |-> 0, cursorCol |-> 1]
              /\ ~ed'.selectAll
              /\ View(Undone(Mach', 1).ed) = Cleared
              /\ View(Undone(Mach', 2).ed) = View(ed)]_vars

\* a "b" replaced the typed three-line text
C15_Witness ==
    /\ TypedChar(acts, "b")
    /\ acts[1].op = "replaceAll"
    /\ View(ed) = [lines |-> << <<"b">> >>, lineCount |-> 1,
                   cursorLine |-> 0, cursorCol |-> 1]
    /\ Snapshot(Top) = Cleared
    /\ View(Undone(Mach, 2).ed).lineCount = 3

\* C16 as stated: a Tab pressed while selectAll is set leaves a one-line
\* buffer that holds only the inserted spaces, and clears selectAll.
C16_TabReplacesAll ==
    [][(ed.selectAll /\ IsTab(acts')) =>
          /\ View(ed') = [lines |-> <<Spaces(TAB_WIDTH)>>, lineCount |-> 1,
                          cursorLine |-> 0, cursorCol |-> TAB_WIDTH]
          /\ ~ed'.selectAll]_vars

\* Tab after Select All on the typed three-line text: the three lines are
\* still there and selectAll is still set
C16_Witness ==
    /\ IsTab(acts)
    /\ ed.selectAll
    /\ ed.lineCount = 3
    /\ At(ed.lines, 2) = <<"a", " ", " ", " ", " ">>
    /\ At(ed.lines, 0) = <<"a", "b">>

Moves == {"cursorLeft", "cursorRight", "cursorUp", "cursorDown"}

\* C17: MoveCursor leaves lines, lineCount and the undo history alone; Right
\* at the end of a line goes to column 0 of the next line if there is one,
\* Left at column 0 to the end of the previous line if there is one, Up and
\* Down to the line above or below if there is one, with cursorCol the
\* smaller of cursorCol and the length of that line; else the cursor stays.
C17_MoveCursor ==
    [][\A op \in Moves :
          Only(op)' =>
              LET L == ed.cursorLine
                  c == ed.cursorCol
                  n == ed.lineCount
                  len(i) == Len(At(ed.lines, i))
                  to == CASE op = "cursorRight" ->
                                 IF c < len(L) THEN <<L, c + 1>>
                                 ELSE IF L + 1 < n THEN <<L + 1, 0>>
                                 ELSE <<L, c>>
                          [] op = "cursorLeft" ->
                                 IF c > 0 THEN <<L, c - 1>>
                                 ELSE IF L > 0 THEN <<L - 1, len(L - 1)>>
                                 ELSE <<L, c>>
                          [] op = "cursorUp" ->
                                 IF L > 0 THEN <<L - 1, Min(c, len(L - 1))>>
                                 ELSE <<L, c>>
                          [] op = "cursorDown" ->
                                 IF L + 1 < n THEN <<L + 1, Min(c, len(L + 1))>>
                                 ELSE <<L, c>>
              IN  /\ <<ed'.cursorLine, ed'.cursorCol>> = to
                  /\ ed'.lines = ed.lines
                  /\ ed'.lineCount = ed.lineCount
                  /\ undoStack' = undoStack
                  /\ undoHead' = undoHead
                  /\ undoCount' = undoCount]_vars

\* Left at column 0 of the second line went to the end of the first line
C17_Witness ==
    /\ Only("cursorLeft")
    /\ ed.lineCount = 3
    /\ ed.cursorLine = 0 /\ ed.cursorCol = 2
    /\ At(ed.lines, 0) = <<"a", "b">>
    /\ undoCount = 6

\* ------------------------------------------------------------ loop() claims
Ops == {acts[i].op : i \in 1..Len(acts)}

NormalOps ==
    {"insertChar", "replaceAll", "handleBackspace", "handleEnter", "handleTab",
     "handleSave", "popUndo", "handleSelectAll", "handleCopy", "handlePaste",
     "optToggle"}

FnOps ==
    {"cursorLeft", "cursorRight", "cursorUp", "cursorDown", "handleEscape",
     "handleFKey", "handleForwardDelete"}

\* C5: a processed pass with fn true performs no text insertion, Backspace,
\* Enter, Tab, Ctrl shortcut or Opt toggle, whatever else is held; one with
\* fn false performs no cursor movement, Escape, function key or ForwardDelete.
C5_FnExclusive ==
    polled = "pressed" =>
        IF "FN" \in Pressed(keyList)
        THEN Ops \cap NormalOps = {}
        ELSE Ops \cap FnOps = {}

\* Fn, Ctrl and z are down in a processed pass, with an entry to undo
C5_Witness ==
    /\ polled = "pressed"
    /\ Pressed(keyList) = {"FN", "CTL", "z"}
    /\ undoCount > 0

\* the action of the Fn layer's fixed mapping for each of its keys
FnAction ==
    (";" :> [op |-> "cursorUp", arg |-> ""])
    @@ ("," :> [op |-> "cursorLeft", arg |-> ""])
    @@ ("." :> [op |-> "cursorDown", arg |-> ""])
    @@ ("/" :> [op |-> "cursorRight", arg |-> ""])
    @@ ("BQ" :> [op |-> "handleEscape", arg |-> ""])
    @@ [c \in DOMAIN DigitValue |-> [op |-> "handleFKey", arg |-> FKeyName(DigitValue[c])]]
    @@ ("0" :> [op |-> "handleFKey", arg |-> "F10"])

\* C6: in a processed pass with Fn and exactly one key of the Fn layer down,
\* in every caps-lock state, fn is true, word holds the key's base character
\* and the pass performs exactly the one action the mapping gives the key.
C6_FnMapping ==
    \A k \in DOMAIN FnAction :
        (polled = "pressed" /\ Pressed(keyList) = {"FN", k}) =>
            /\ keysState(keyList, capsLocked).fn
            /\ keysState(keyList, capsLocked).word = <<k>>
            /\ acts = <<FnAction[k]>>

\* caps lock is on and a processed pass saw Fn and ';' down: no action
C6_Witness ==
    /\ capsLocked
    /\ polled = "pressed"
    /\ Pressed(keyList) = {"FN", ";"}
    /\ acts = <<>>

LeftOfCursor(e) ==
    <<SubSeq(Visible(e.lines, e.lineCount), 1, e.cursorLine),
      substring(At(e.lines, e.cursorLine), 0, e.cursorCol)>>

FnDel ==
    /\ polled' = "pressed"
    /\ "FN" \in Pressed(keyList')
    /\ "BKSP" \in Pressed(keyList')

OneForwardDelete ==
    /\ CountIn(acts', "handleForwardDelete") = 1
    /\ CountIn(acts', "handleBackspace") = 0

\* the pass removed the character that was left of the cursor
LeftCharRemoved ==
    /\ ed.cursorCol > 0
    /\ ed'.cursorLine = ed.cursorLine
    /\ ed'.cursorCol = ed.cursorCol - 1
    /\ ed'.lines # ed.lines

Moved(a) == \E i \in 1..Len(a) : a[i].op \in {"cursorLeft", "cursorRight", "cursorUp", "cursorDown"}

C8_OncePerCycle ==
    /\ polled = "released" => ~prevFn /\ ~prevShift
    /\ cyc.both /\ cyc.pure => cyc.fires = 1

\* two such cycles are over: caps lock went on and off again
C8_Witness ==
    /\ cyc.n = 2
    /\ ~cyc.open
    /\ cyc.both /\ cyc.pure
    /\ polled = "released"
    /\ ~capsLocked

CapsChanged == capsLocked' # capsLocked \/ ed'.capsLock # ed.capsLock

\* C9: caps lock changes only in a processed pass with fn and shift true and
\* prevFn and prevShift not both true, and is then negated once; while Fn and
\* Shift stay down after a toggle no pass changes it, whatever other keys go
\* down or up, and no other operation changes it.
C9_CapsEdge ==
    [][/\ CapsChanged =>
            /\ polled' = "pressed"
            /\ {"FN", "SHF"} \subseteq Pressed(keyList')
            /\ ~(prevFn /\ prevShift)
            /\ capsLocked' = ~capsLocked
            /\ ed'.capsLock = ~ed.capsLock
            /\ CountIn(acts', "capsToggle") = 1
       /\ CountIn(acts', "capsToggle") > 0 => CapsChanged
       /\ (cyc.held /\ {"FN", "SHF"} \subseteq Pressed(keyList')) => ~CapsChanged
      ]_vars

\* caps lock is on, Fn and Shift are still down since the toggle, and a
\* later pass processed the letter pressed with them
C9_Witness ==
    /\ capsLocked
    /\ cyc.held
    /\ polled = "pressed"
    /\ keyList = <<"FN", "SHF", "a">>
    /\ CountIn(acts, "capsToggle") = 0

\* the operation of each Ctrl shortcut, by the key's base character
Shortcut ==
    ("s" :> "handleSave") @@ ("z" :> "popUndo") @@ ("a" :> "handleSelectAll")
    @@ ("c" :> "handleCopy") @@ ("v" :> "handlePaste")

\* the shortcut operations of the keys of kl, in the order of kl
ShortcutActs(kl) ==
    LET keys == SelectSeq(kl, LAMBDA k : k \in DOMAIN Shortcut)
    IN  [i \in 1..Len(keys) |-> [op |-> Shortcut[keys[i]], arg |-> ""]]

CtrlPoll ==
    /\ polled' = "pressed"
    /\ "CTL" \in Pressed(keyList')
    /\ "FN" \notin Pressed(keyList')

\* C18: a processed pass with ctrl true and fn false performs the Ctrl
\* shortcuts of the letters in word (s Save, z Undo, a SelectAll, c Copy,
\* v Paste), which the resolver delivers in upper case, and nothing else: no
\* character is inserted and Backspace, Enter, Tab and the Opt toggle are not
\* applied, whichever of those keys are down.
C18_CtrlOnly ==
    [][CtrlPoll =>
          /\ acts' = ShortcutActs(keyList')
          /\ \A i \in 1..Len(keysState(keyList', capsLocked).word) :
                keysState(keyList', capsLocked).word[i] \notin Printable \ {" "}
          /\ ed'.showLineNumbers = ed.showLineNumbers
          /\ ed'.scrollX = ed.scrollX /\ ed'.scrollY = ed.scrollY
          /\ IF \E k \in Pressed(keyList') : k = "z"
             THEN <<ed', undoStack', undoHead', undoCount'>> =
                  LET r == popUndo(Mach)
                  IN  <<[r.ed EXCEPT !.selectAll = ed'.selectAll,
                                     !.notification = ed'.notification],
                        r.undoStack, r.undoHead, r.undoCount>>
             ELSE /\ View(ed') = View(ed)
                  /\ undoStack' = undoStack
                  /\ undoHead' = undoHead
                  /\ undoCount' = undoCount]_vars

\* Ctrl, Backspace and z are down: the pass undid the last typed "a" and
\* applied no Backspace
C18_Witness ==
    /\ polled = "pressed"
    /\ Pressed(keyList) = {"CTL", "BKSP", "z"}
    /\ acts = <<[op |-> "popUndo", arg |-> ""]>>
    /\ ed.lineCount = 3
    /\ At(ed.lines, 2) = <<>>
    /\ At(ed.lines, 1) = <<"b">>
    /\ undoCount = 5

\* ------------------------------------------------------------ resolver claims
\* the printable keys of the key list, in its order
PrintableKeys(kl) == SelectSeq(kl, LAMBDA k : k \in Printable)

Range(f) == {f[i] : i \in DOMAIN f}

\* C19: for every printable key of a poll the resolver appends to word the
\* key's shifted character if ctrl, shift or caps lock is on in that poll and
\* its base character otherwise, once, whatever the combination of the
\* three; the HID code it appends to hid_keys is the key's base-layer code in
\* both cases (only 'a': word 'a', HID 0x04; Ctrl+'a': word 'A', modifiers
\* 0x01, HID 0x04).
C19_ShiftedLayer ==
    [][Only("update")' =>
          LET keys == PrintableKeys(keyList')
              down == Pressed(keyList')
              shifted == "CTL" \in down \/ "SHF" \in down \/ capsLocked'
          IN  /\ status'.ctrl = ("CTL" \in down)
              /\ status'.shift = ("SHF" \in down)
              /\ Len(status'.word) = Len(keys)
              /\ \A i \in 1..Len(keys) :
                    status'.word[i] = IF shifted THEN KeyValueMap[keys[i]] ELSE keys[i]
              /\ keys = <<"a">> =>
                    /\ status'.word = IF shifted THEN <<"A">> ELSE <<"a">>
                    /\ 4 \in Range(status'.hid_keys)
                    /\ 132 \notin Range(status'.hid_keys)
              /\ keys = <<";">> =>
                    /\ status'.word = IF shifted THEN <<":">> ELSE <<";">>
                    /\ 51 \in Range(status'.hid_keys)
              /\ (keyList' = <<"a">> /\ ~capsLocked') =>
                    /\ status'.word = <<"a">>
                    /\ status'.hid_keys = <<4>>
                    /\ status'.modifiers = 0
              /\ (down = {"CTL", "a"}) =>
                    /\ status'.word = <<"A">>
                    /\ status'.hid_keys = <<4>>
                    /\ status'.modifiers = 1
              /\ LET coded == SelectSeq(keyList', LAMBDA k : k \in DOMAIN HidCode)
                 IN  status'.hid_keys = [i \in 1..Len(coded) |-> HidCode[coded[i]]]
              /\ Len(status'.hid_keys) =
                    Len(keys) + Cardinality(down \cap {"TAB", "ENT", "BKSP"})
              /\ \A i \in 1..Len(status'.hid_keys) : status'.hid_keys[i] < 128]_vars

\* Shift, Ctrl and 'a' are down and caps lock is on: one 'A', HID 0x04
C19_Witness ==
    /\ Only("update")
    /\ capsLocked
    /\ Pressed(keyList) = {"CTL", "SHF", "a"}
    /\ status.word = <<"A">>
    /\ status.hid_keys = <<4>>

\* C20: for every set of pressed keys modifiers is 0x01 if ctrl, plus 0x02 if
\* shift, plus 0x04 if alt; modifier_keys holds 0x80, 0x81, 0x82 exactly when
\* ctrl, shift, alt is set; Fn and Opt set their booleans only: with or
\* without them modifiers, modifier_keys, word and hid_keys are the same.
C20_ModifierBits ==
    [][Only("update")' =>
          LET down == Pressed(keyList')
              bare == keysState(SelectSeq(keyList', LAMBDA k : k \notin {"FN", "OPT"}),
                                capsLocked')
          IN  /\ status'.ctrl = ("CTL" \in down)
              /\ status'.shift = ("SHF" \in down)
              /\ status'.alt = ("ALT" \in down)
              /\ status'.fn = ("FN" \in down)
              /\ status'.opt = ("OPT" \in down)
              /\ status'.modifiers = (IF status'.ctrl THEN 1 ELSE 0)
                                     + (IF status'.shift THEN 2 ELSE 0)
                                     + (IF status'.alt THEN 4 ELSE 0)
              /\ Range(status'.modifier_keys) =
                    {c \in {128, 129, 130} :
                        \/ c = 128 /\ status'.ctrl
                        \/ c = 129 /\ status'.shift
                        \/ c = 130 /\ status'.alt}
              /\ Len(status'.modifier_keys) = Cardinality(Range(status'.modifier_keys))
              /\ status'.modifiers = bare.modifiers
              /\ status'.modifier_keys = bare.modifier_keys
              /\ status'.word = bare.word
              /\ status'.hid_keys = bare.hid_keys
              /\ ~bare.fn /\ ~bare.opt]_vars

\* Ctrl, Alt, Fn and Opt are down: bits 0x01 and 0x04, codes 0x80 and 0x82,
\* and nothing from Fn or Opt
C20_Witness ==
    /\ Only("update")
    /\ Pressed(keyList) = {"CTL", "ALT", "FN", "OPT"}
    /\ status.fn /\ status.opt
    /\ status.modifiers = 5
    /\ Range(status.modifier_keys) = {128, 130}
    /\ status.hid_keys = <<>>
    /\ status.word = <<>>

\* the key whose base or shifted character is c
BaseOf(c) == CHOOSE k \in Printable : c \in {k, KeyValueMap[k]}

SpecialCodes == {HidCode["TAB"], HidCode["ENT"], HidCode["BKSP"]}

\* C21: with p printable or space keys and s keys among Tab, Enter and
\* Backspace down, word has p entries and hid_keys p + s: Tab, Enter and
\* Backspace add their HID code (0x2B, 0x28, 0x2A) and nothing to word, a
\* printable or space key adds one entry to each, in the same relative
\* order, and nothing is cut off for p >= 10.
C21_Rollover ==
    Only("update") =>
        LET down == Pressed(keyList)
            p == Cardinality(down \cap Printable)
            n == Cardinality(down \cap {"TAB", "ENT", "BKSP"})
            word == status.word
            hids == status.hid_keys
        IN  /\ Len(word) = p
            /\ Len(hids) = p + n
            /\ \A i \in 1..Len(word) : word[i] \notin {"TAB", "ENT", "BKSP"}
            /\ (43 \in Range(hids)) = ("TAB" \in down)
            /\ (40 \in Range(hids)) = ("ENT" \in down)
            /\ (42 \in Range(hids)) = ("BKSP" \in down)
            /\ {BaseOf(word[i]) : i \in 1..Len(word)} = down \cap Printable
            /\ SelectSeq(hids, LAMBDA h : h \notin SpecialCodes) =
                  [i \in 1..Len(word) |-> HidCode[BaseOf(word[i])]]

\* the ten letters of the top row, Space, Tab and Enter are down
C21_Witness ==
    /\ Only("update")
    /\ Len(keyList) = 13
    /\ Len(status.word) = 11
    /\ Len(status.hid_keys) = 13
    /\ status.word[10] \in {"p", "P"}
    /\ status.hid_keys[13] = 40

\* the orders in which the keys of kl can be enumerated
Orders(kl) ==
    {o \in [1..Len(kl) -> Pressed(kl)] : \A i, j \in 1..Len(kl) : o[i] = o[j] => i = j}

\* how often x occurs in seq
Count(seq, x) == Cardinality({i \in 1..Len(seq) : seq[i] = x})

SameEntries(a, b) ==
    /\ Len(a) = Len(b)
    /\ \A x \in Range(a) \cup Range(b) : Count(a, x) = Count(b, x)

Flags(st) == <<st.tab, st.fn, st.shift, st.ctrl, st.opt, st.alt, st.del, st.enter, st.space>>

\* the resolutions r and st of the keys down have the same flags, modifiers
\* and entries, and the same layer for every printable key
Agree(r, st, down) ==
    /\ Flags(r) = Flags(st)
    /\ r.modifiers = st.modifiers
    /\ SameEntries(r.word, st.word)
    /\ SameEntries(r.hid_keys, st.hid_keys)
    /\ \A k \in down \cap Printable :
          (KeyValueMap[k] \in Range(r.word)) = (KeyValueMap[k] \in Range(st.word))

C23_ChangeByMembership ==
    [][Pressed(keyList') # Pressed(keyList) => polled' # "idle"]_vars

\* 'z' was typed into the empty text, then released while '1' went down
\* between two passes: the pass that finds '1' alone is not processed and
\* the text is still "z"
C23_Witness ==
    /\ polled = "idle"
    /\ budget = 0
    /\ keyList = <<"1">>
    /\ status.word = <<"1">>
    /\ ed.lineCount = 1
    /\ At(ed.lines, 0) = <<"z">>

\* ------------------------------------------------------- the frame of Undo
\* C24: an Undo with undoCount > 0 restores lines[0..lineCount), lineCount
\* and the cursor from the top entry and nothing else of the buffer: the
\* lines from the restored lineCount on, selectAll, capsLock,
\* showLineNumbers, scrollX and scrollY are as before, whatever their
\* values, and no entry of the undo ring is written: undoHead steps back by
\* one and undoCount goes down by one.
C24_UndoFrame ==
    [][(Only("popUndo")' /\ undoCount > 0) =>
          /\ View(ed') = Snapshot(Top)
          /\ \A i \in ed'.lineCount..(MAX_LINES - 1) :
                At(ed'.lines, i) = At(ed.lines, i)
          /\ ed'.selectAll = ed.selectAll
          /\ ed'.capsLock = ed.capsLock
          /\ ed'.showLineNumbers = ed.showLineNumbers
          /\ ed'.scrollX = ed.scrollX
          /\ ed'.scrollY = ed.scrollY
          /\ undoStack' = undoStack
          /\ undoHead' = (undoHead - 1 + UNDO_STACK_SIZE) % UNDO_STACK_SIZE
          /\ undoCount' = undoCount - 1
          /\ \A caps, nums, all \in BOOLEAN : \A sx \in {0, CHARS_PER_LINE} :
                LET e == popUndo([Mach EXCEPT !.ed.capsLock = caps,
                                              !.ed.showLineNumbers = nums,
                                              !.ed.selectAll = all,
                                              !.ed.scrollX = sx]).ed
                IN  /\ e.capsLock = caps
                    /\ e.showLineNumbers = nums
                    /\ e.selectAll = all
                    /\ e.scrollX = sx
                    /\ e.scrollY = ed.scrollY
                    /\ View(e) = View(ed')]_vars

\* an Undo restored the text while it was selected and scrolled
C24_Witness ==
    /\ Only("popUndo")
    /\ ed.notification = "Undo"
    /\ ed.selectAll
    /\ ed.scrollY > 0
    /\ ed.lineCount = MAX_LINES - 2

\* ------------------------------------------------------- the Opt toggle
\* C25: Opt negates showLineNumbers once per press: after the pass that
\* negated it, no pass negates it again for as long as the Opt key stays
\* down, whatever other keys go down or up.
C25_OptOncePerPress ==
    [][(/\ CountIn(acts, "optToggle") = 1
        /\ "OPT" \in Pressed(keyList)
        /\ "OPT" \in Pressed(keyList')) =>
          ed'.showLineNumbers = ed.showLineNumbers]_vars

\* Opt went down and switched the line numbers on; 'z' went down while Opt
\* was held and the pass that typed it switched them off again
C25_Witness ==
    /\ polled = "pressed"
    /\ budget = 0
    /\ keyList = <<"OPT", "z">>
    /\ CountIn(acts, "optToggle") = 1
    /\ CountIn(acts, "insertChar") = 1
    /\ ed.showLineNumbers = FALSE
    /\ ed.notification = "Line numbers OFF"

\* ------------------------------------------------------- the diagnostic log
\* the last k entries of a sequence
LastOf(seq, k) == SubSeq(seq, Len(seq) - k + 1, Len(seq))

\* the log ring from its oldest line to its newest
Ring ==
    [i \in 1..logCount |->
        logLines[(logHead - logCount + i - 1 + LOG_LINES) % LOG_LINES]]

\* the log lines on the canvas, from the top of the screen down
Drawn == [i \in 1..(Len(canvas) - 1) |-> canvas[i + 1].text]

\* C26: after n calls of logPrint the log ring holds the min(n, LOG_LINES)
\* lines logged last, and the canvas, which every pass that logs redraws,
\* shows all of them below the header, the oldest first and the line logged
\* last at the bottom.
C26_LogShown ==
    LET shown == LastOf(serial, Min(Len(serial), LOG_LINES))
    IN  /\ logCount = Min(Len(serial), LOG_LINES)
        /\ Ring = shown
        /\ Drawn = shown

\* the ring is full and holds the 16 lines logged last, the canvas shows
\* the first 15 of them: the line logged last, "---", is not on the screen
C26_Witness ==
    /\ Only("drawLog")
    /\ Len(serial) > LOG_LINES
    /\ logCount = LOG_LINES
    /\ Ring = LastOf(serial, LOG_LINES)
    /\ Len(Drawn) = LOG_LINES - 1
    /\ Drawn = SubSeq(Ring, 1, LOG_LINES - 1)
    /\ Ring[LOG_LINES] = <<"---">>
    /\ canvas[Len(canvas)].y = 122

\* ------------------------------------------------------- the ring as a stack
\* the stack the ring stands for, bottom first: the undoCount entries
\* written last, the newest of them just below undoHead
Stack(stack, head, count) ==
    [i \in 1..count |->
        Snapshot(stack[(head - count + i - 1 + UNDO_STACK_SIZE) % UNDO_STACK_SIZE])]

\* push on a stack of at most UNDO_STACK_SIZE elements that drops its bottom
\* element when it is full
Pushed(st, x) ==
    IF Len(st) < UNDO_STACK_SIZE THEN Append(st, x) ELSE Append(Tail(st), x)

\* C27: the undo ring is a stack of at most UNDO_STACK_SIZE snapshots whose
\* push drops the oldest one when it is full: undoCount is its length,
\* every pushUndo pushes the buffer of the moment, every popUndo on a
\* non-empty stack restores its top element and removes it, and a popUndo
\* on the empty stack changes neither the stack nor the buffer.
C27_BoundedStack ==
    [][LET st == Stack(undoStack, undoHead, undoCount)
           after == Stack(undoStack', undoHead', undoCount')
       IN  /\ undoCount' \in 0..UNDO_STACK_SIZE
           /\ \A i \in 1..undoCount' :
                 undoStack'[(undoHead' - i + UNDO_STACK_SIZE) % UNDO_STACK_SIZE].valid
           /\ Only("insertChar")' => after = Pushed(st, View(ed))
           /\ (Only("popUndo")' /\ st # <<>>) =>
                 /\ View(ed') = st[Len(st)]
                 /\ after = SubSeq(st, 1, Len(st) - 1)
           /\ (Only("popUndo")' /\ st = <<>>) =>
                 /\ View(ed') = View(ed)
                 /\ after = <<>>]_vars

\* 21 snapshots were pushed, one Undo popped the 21st, two more were pushed
\* and dropped the two oldest, and an Undo popped the newest
C27_Witness ==
    /\ Only("popUndo")
    /\ ed.notification = "Undo"
    /\ undoCount = UNDO_STACK_SIZE - 1
    /\ undoHead = 1
    /\ undos = 1
    /\ Len(burst) = 2
    /\ Len(At(ed.lines, 0)) = UNDO_STACK_SIZE + 1

\* ------------------------------------------------------- the visible window
\* C28: after every processed pass with keys down the cursor is inside the
\* window the redraw shows: scrollY <= cursorLine < scrollY + VISIBLE_LINES
\* and scrollX <= cursorCol < scrollX + visibleChars.
C28_CursorVisible ==
    polled = "pressed" =>
        LET leftMargin == IF ed.showLineNumbers THEN 4 ELSE 0
            visibleChars == CHARS_PER_LINE - leftMargin
        IN  /\ ed.scrollY <= ed.cursorLine
            /\ ed.cursorLine < ed.scrollY + VISIBLE_LINES
            /\ ed.scrollX <= ed.cursorCol
            /\ ed.cursorCol < ed.scrollX + visibleChars

\* Ctrl+Z took back the last Enter of the third text: the cursor is on line
\* VISIBLE_LINES, the window still shows lines 0..VISIBLE_LINES-1
C28_Witness ==
    /\ polled = "pressed"
    /\ Only("popUndo")
    /\ ed.notification = "Undo"
    /\ ed.cursorLine = VISIBLE_LINES
    /\ ed.lineCount = VISIBLE_LINES + 1
    /\ ed.scrollY = 0

\* ------------------------------------------------------- level-triggered text
\* the characters the last pass handed to insertChar, in call order
Inserted ==
    LET ins == SelectSeq(acts, LAMBDA a : a.op = "insertChar")
    IN  [i \in 1..Len(ins) |-> ins[i].arg]

\* C29: a processed pass with fn and ctrl false inserts, after the spaces
\* of a Tab, every character of word in order, one for each printable key
\* that is down, whether the key went down for this pass or was held since
\* an earlier one; the characters end up left of the cursor.
C29_LevelTriggered ==
    (polled = "pressed" /\ ~status.fn /\ ~status.ctrl) =>
        LET word == status.word
            line == At(ed.lines, ed.cursorLine)
        IN  /\ Inserted = (IF status.tab THEN Spaces(TAB_WIDTH) ELSE <<>>) \o word
            /\ Len(word) = Cardinality(Pressed(keyList) \cap Printable)
            /\ ed.cursorCol >= Len(word)
            /\ substring(line, ed.cursorCol - Len(word), ed.cursorCol) = word

\* 'z' went down and was typed; '1' went down while 'z' was held and the
\* pass typed 'z' again before '1'
C29_Witness ==
    /\ polled = "pressed"
    /\ budget = 0
    /\ keyList = <<"z", "1">>
    /\ Inserted = <<"z", "1">>
    /\ ed.lineCount = 1
    /\ At(ed.lines, 0) = <<"z", "z", "1">>

\* ------------------------------------------------------- ForwardDelete
\* C30: with the cursor anywhere but at the end of the last line,
\* ForwardDelete leaves the lines[0..lineCount), lineCount and cursor that
\* MoveCursor(Right) followed by Backspace leaves.
C30_RightThenBackspace ==
    [][(Only("handleForwardDelete")' /\ ~AtEndOfText(ed)) =>
          View(ed') = View(handleBackspace(cursorRight(Mach)).ed)]_vars

\* a ForwardDelete at the end of a line joined the next line to it, where
\* MoveCursor(Right) wraps to the start of the next line
C30_Witness ==
    /\ Only("handleForwardDelete")
    /\ Top.lineCount = ed.lineCount + 1
    /\ Top.cursorLine = ed.cursorLine
    /\ Top.cursorCol = ed.cursorCol
    /\ ed.cursorCol > 0
    /\ Len(At(ed.lines, ed.cursorLine)) > ed.cursorCol
    /\ ed.lineCount > 1

\* ------------------------------------------------------- the caps-lock mirror
\* C31: ed.capsLock, which the status bar shows as CAPS, equals the
\* keyboard's caps-lock flag in every state, and the KeysState of every pass
\* that did not toggle it is the one the resolver gives under ed.capsLock.
C31_CapsMirror ==
    /\ ed.capsLock = capsLocked
    /\ CountIn(acts, "capsToggle") = 0 => status = keysState(keyList, ed.capsLock)

\* Fn+Shift switched caps lock on, the keys went up, and 'a' typed "A" with
\* the mirror and the keyboard's flag both on
C31_Witness ==
    /\ polled = "pressed"
    /\ keyList = <<"a">>
    /\ ed.capsLock
    /\ capsLocked
    /\ status.word = <<"A">>
    /\ At(ed.lines, 0) = <<"A">>

\* ------------------------------------------------------- the length of a line
\* C32: no line of the edit buffer is longer than MAX_LINE_LEN characters.
C32_LineLength ==
    \A i \in 0..(ed.lineCount - 1) : Len(At(ed.lines, i)) <= MAX_LINE_LEN

\* a character was typed at the end of the line of MAX_LINE_LEN characters
C32_Witness ==
    /\ Only("insertChar")
    /\ ed.lineCount = 1
    /\ Len(At(ed.lines, 0)) = MAX_LINE_LEN + 1
    /\ ed.cursorCol = MAX_LINE_LEN + 1
    /\ Top.cursorCol = MAX_LINE_LEN

\* ------------------------------------------------------- valid entries
\* C33: undoCount is in 0..UNDO_STACK_SIZE, undoHead in
\* 0..UNDO_STACK_SIZE-1, and the undoCount entries just below undoHead,
\* counted cyclically, are valid; the entry a popUndo reads while
\* undoCount > 0 is therefore valid, and every popUndo either restores an
\* entry or finds the history empty.
C33_ValidEntries ==
    /\ 0 <= undoCount /\ undoCount <= UNDO_STACK_SIZE
    /\ 0 <= undoHead /\ undoHead < UNDO_STACK_SIZE
    /\ \A i \in 1..undoCount :
          undoStack[(undoHead - i + UNDO_STACK_SIZE) % UNDO_STACK_SIZE].valid
    /\ undoCount > 0 => Top.valid
    /\ Only("popUndo") =>
          \/ ed.notification = "Nothing to undo" /\ undoCount = 0
          \/ /\ ed.notification = "Undo"
             /\ undoStack[undoHead].valid
             /\ View(ed) = Snapshot(undoStack[undoHead])

\* 21 pushes wrapped undoHead to 1, two Undos took it back over slot 0 to
\* slot 19: the 18 entries of the history lie in slots 1..18
C33_Witness ==
    /\ Only("popUndo")
    /\ undos = 2
    /\ Len(burst) = UNDO_STACK_SIZE + 1
    /\ undoHead = UNDO_STACK_SIZE - 1
    /\ undoCount = UNDO_STACK_SIZE - 2
    /\ undoStack[0].valid
    /\ undoStack[UNDO_STACK_SIZE - 1].valid

====
